---- MODULE Spec2Model ----
(***************************************************************************)
(* Model of the IPTV aggregation engine (src/M3U8): the bounded resolver   *)
(* Network.safe_process, the capture bridge process_event in its three     *)
(* variants (Network.process_event, watchfooty.process_event and           *)
(* old/livetvsx.process_event), the adapters' scrape loops and the         *)
(* top-level join in fetch.main.                                           *)
(*                                                                         *)
(* Two state machines share the module.  SpecResolver runs ONE call of     *)
(* safe_process around one wrapped operation, at the granularity of the    *)
(* suspension points (every await) of the code.  Spec runs fetch.main: the *)
(* adapter tasks, their scrape control flow and the gather/merge/write     *)
(* sequence, with each safe_process call taken as one step whose result is *)
(* the operation's value or None.                                          *)
(***************************************************************************)
EXTENDS Integers, Sequences, FiniteSets, TLC

(***************************************************************************)
(* Bounds of the model.                                                    *)
(***************************************************************************)
MaxCaptured == 2      \* longest list of captured request URLs kept

MaxEvents == 2        \* most events one discovery returns

NumRunning == 2       \* adapter tasks of main that one run of the model follows

MaxMirrors == 3       \* most candidate base URLs handed to get_base

MaxKeys == 2          \* composite keys a cache store is seen to hold

MaxListed == 2        \* most events the source of an adapter lists

MaxBase == 2          \* channels of the base list that carry a number

MaxChno == 3          \* largest channel number the base list is seen to carry

MaxNames == 3         \* names the merged live map is seen to hold

MaxWords == 5         \* most words an event name is seen to have

(***************************************************************************)
(* Values.  A request URL is abstracted to the part of it capture_req      *)
(* looks at: the host fragment and the file extension.  None is Python's   *)
(* None, given the shape of a URL so that results compare.                 *)
(***************************************************************************)
None == [host |-> "none", file |-> "none"]

\* "AmazonAWS" and "M3U8" are spellings in another letter case
Hosts == {"cdn1", "cdn2", "amazonaws", "knitcdn", "AmazonAWS"}

Files == {"m3u8", "ts", "M3U8"}

ReqUrls == [host : Hosts, file : Files]

\* webwork.py:91 invalids
Invalids == {"amazonaws", "knitcdn"}

\* The case folding re.IGNORECASE applies when it compares (webwork.py:97)
Lower(s) ==
    CASE s = "AmazonAWS" -> "amazonaws"
      [] s = "M3U8" -> "m3u8"
      [] OTHER -> s

\* Mutant of PatternSearch: the pattern compiled without re.IGNORECASE.
PatternSearchCased(u) == u.file = "m3u8" /\ u.host \notin Invalids

\* webwork.py:95-100: the pattern ^(?!.*(amazonaws|knitcdn)).*\.m3u8, compiled
\* with re.IGNORECASE, finds a match
PatternSearch(u) == Lower(u.file) = "m3u8" /\ Lower(u.host) \notin Invalids

\* The values a wrapped operation that is not a capture bridge may return
\* (roxie/streambtw process_event: a URL, or None when nothing was found).
OpValues == {[host |-> "cdn1", file |-> "m3u8"], None}

Variants == {"op", "net", "wfty", "ltv"}

VARIABLES
    \* ---- one call of Network.safe_process ----
    variant,        \* which operation fn() is
    opHangs,        \* variant "op": the operation never completes on its own
    spPc,           \* position of safe_process
    spResult,       \* the value safe_process returned
    spRaised,       \* safe_process let an exception escape to its caller
    spTimedOut,     \* the deadline passed with the task pending (webwork.py:67)
    taskState,      \* state of task = asyncio.create_task(fn())
    taskResult,     \* the task's result once finished
    mustCancel,     \* task.cancel() was requested and not yet delivered
    cancelCount,    \* cancellations delivered to the task
    \* ---- the wrapped operation (process_event) ----
    pePc,           \* position of the operation
    pePending,      \* what the operation does once its finally block ends
    peRet,          \* the value a pending return carries
    page,           \* "none" | "open" | "closing" | "closed"
    pageListener,   \* handler registered on page "request"
    popup,          \* "none" | "open" | "closed" (livetvsx)
    popupListener,  \* handler registered on popup "request"
    captured,       \* captured: list[str]
    gotOne,         \* got_one: asyncio.Event
    closeCalls,     \* number of page.close() calls
    removeCalls,    \* number of page.remove_listener() calls
    waitTask,       \* wait_task = asyncio.create_task(got_one.wait())
    waitEnded       \* how the wait for got_one ended: "no" | "match" | "timeout"

VARIABLES
    \* ---- fetch.main and the adapters' scrape tasks ----
    lineup,         \* the adapter tasks followed
    mainPc,         \* position of main
    additions,      \* the merged live map, as <<adapter, event>> pairs
    combinedWritten,\* COMBINED_FILE was written
    eventsWritten,  \* EVENTS_FILE was written
    adPc,           \* position of each adapter's scrape
    adSource,       \* what the adapter found upstream: "unknown" | "up" | "down" | "no_mirror"
    adN,            \* number of events discovery returned
    adResults,      \* what safe_process returned for the events tried so far
    adSaved         \* CACHE_FILE.write was called

VARIABLES
    \* ---- one call of Network.get_base ----
    mirrors,        \* what the probe of each candidate meets, in input order
    results,        \* results of the gather, by position; "pending" before
    arrival,        \* the positions in the order their probes completed
    gbPc,           \* position of get_base: "off" | "gather" | "returned"
    gbRet           \* position of the mirror returned, 0 for None

mirrorVars == <<mirrors, results, arrival, gbPc, gbRet>>

VARIABLES
    \* ---- one cache store (a Cache object and its snapshot file) ----
    stPc,           \* "off" | "idle" | "loaded" | "written": the last call
    stDisk,         \* the snapshot file: "missing" | "corrupt" | "ok"
    stFile,         \* the map the snapshot file holds when it is "ok"
    stNow,          \* the clock
    stLoaded,       \* what the last load() returned
    stRaised,       \* the last load() raised
    stWritten,      \* the map the last write() was given
    stSince         \* "write" while nothing happened since the last write but loads

storeVars == <<stPc, stDisk, stFile, stNow, stLoaded, stRaised, stWritten, stSince>>

VARIABLES
    \* ---- the successive runs of one adapter against its source ----
    rnAdapter,      \* the adapter; "none" when no run is followed
    rnSource,       \* the events the source lists, in its order
    rnPc,           \* position of scrape in the current run
    rnNow,          \* the clock
    rnDisk,         \* the snapshot of CACHE_FILE: "missing" | "ok"
    rnFile,         \* the map the snapshot holds
    rnCached,       \* cached_urls
    rnLive,         \* urls, the adapter's live output map
    rnEvents,       \* events: what get_events returned (positions in rnSource)
    rnIdx,          \* events of the batch handed to safe_process so far
    rnAttempt,      \* per key, the instant of the last resolution attempt; -1 for none
    rnRepeat,       \* keys resolved again by a later run inside the TTL of an attempt
    rnFlight,       \* positions in rnEvents of the calls of safe_process not yet returned
    rnListed,       \* get_events of this run got the listing of the source
    rnPrevComplete, \* the run before this one got the listing and wrote the cache
    rnBase          \* what get_base returned in this run: "unknown" | "found" | "none"

runVars == <<rnAdapter, rnSource, rnPc, rnNow, rnDisk, rnFile, rnCached, rnLive,
             rnEvents, rnIdx, rnAttempt, rnRepeat, rnListed, rnPrevComplete, rnFlight,
             rnBase>>

\* The components outside safe_process and main
\* The numbering of the channels in main, followed on its own
VARIABLES
    agPc,           \* position in main
    agBase,         \* the numbers tvg-chno="..." of base.m3u8, in the order of the file
    agChno,         \* tvg_chno, the second result of load_base
    agAdditions,    \* the keys of the merged map `additions`
    agLive,         \* live_events: one record per channel block
    agCombined      \* combined_channels: one record per channel block

aggVars == <<agPc, agBase, agChno, agAdditions, agLive, agCombined>>

\* The merge of the adapters' maps in main, followed on its own
VARIABLES
    mgPc,           \* position in main
    mgMaps,         \* the keys of the map urls of each adapter
    mgDone,         \* the adapters whose task has ended, in the order they ended
    mgAdditions,    \* the merged map `additions`: key -> the adapter its entry is from
    mgOut           \* the channel blocks in the order they are emitted

mergeVars == <<mgPc, mgMaps, mgDone, mgAdditions, mgOut>>

\* The upstream-response cache of one adapter, followed over successive runs
VARIABLES
    apAdapter,      \* the adapter; "none" when no API cache is followed
    apPc,           \* position of get_events in the current run
    apNow,          \* the clock
    apDisk,         \* the snapshot of API_FILE: "missing" | "ok"
    apBlob,         \* the blob the snapshot holds
    apLoaded,       \* what API_FILE.load(per_entry=False) returned in this run
    apData,         \* api_data
    apRequests,     \* upstream API requests made in this run
    apLastFetch,    \* the instant of the last fetch that got a payload; -1 for none
    apRefetch       \* a run inside one TTL of such a fetch has fetched again

apiVars == <<apAdapter, apPc, apNow, apDisk, apBlob, apLoaded, apData, apRequests,
             apLastFetch, apRefetch>>

\* The resolutions of one batch of events in one browser context
VARIABLES
    btIdx,          \* the event of the batch being resolved; 0 when no batch is followed
    btPrev          \* the page of the event before it: "none" | "open" | "closing" | "closed"

batchVars == <<btIdx, btPrev>>

\* The keys the adapters build and the union main makes of their maps
VARIABLES
    tgPc,           \* position in main: "off" | "gather" | "merged" | "written"
    tgTasks,        \* the adapters whose maps are followed
    tgEnded,        \* those of them whose scrape has ended
    tgMaps,         \* the keys of the map urls of each of them
    tgAdditions,    \* the merged map `additions`: key -> the adapter its entry is from
    tgLive,         \* the blocks of live_events in the order they are appended
    tgCombined      \* the blocks of combined_channels in the order they are appended

tagVars == <<tgPc, tgTasks, tgEnded, tgMaps, tgAdditions, tgLive, tgCombined>>

\* The metadata lookup for one resolved event
VARIABLES
    lkPc,           \* "off" | "resolved" | "stored" | "raised"
    lkSport,        \* the sport label of the event
    lkEvent,        \* the name of the event, word by word
    lkInfo          \* what get_tvg_info returned

lookupVars == <<lkPc, lkSport, lkEvent, lkInfo>>

libVars == <<mirrorVars, storeVars, runVars, aggVars, mergeVars, apiVars, batchVars, tagVars, lookupVars>>

mainVars == <<lineup, mainPc, additions, combinedWritten, eventsWritten, adPc, adSource,
              adN, adResults, adSaved>>

resolverVars == <<variant, opHangs, spPc, spResult, spRaised, spTimedOut, taskState,
                  taskResult,
                  mustCancel, cancelCount, pePc, pePending, peRet, page, pageListener,
                  popup, popupListener, captured, gotOne, closeCalls, removeCalls,
                  waitTask, waitEnded>>

vars == <<resolverVars, mainVars, libVars>>

\* What the steps of one component leave alone
mirrorFrame == <<resolverVars, mainVars, storeVars, runVars, aggVars, mergeVars,
    apiVars,
    batchVars,
    tagVars,
    lookupVars>>

storeFrame == <<resolverVars, mainVars, mirrorVars, runVars, aggVars, mergeVars,
    apiVars,
    batchVars,
    tagVars,
    lookupVars>>

runFrame == <<resolverVars, mainVars, mirrorVars, storeVars, aggVars, mergeVars,
    apiVars,
    batchVars,
    tagVars,
    lookupVars>>

aggFrame == <<resolverVars, mainVars, mirrorVars, storeVars, runVars, mergeVars,
    apiVars,
    batchVars,
    tagVars,
    lookupVars>>

mergeFrame == <<resolverVars, mainVars, mirrorVars, storeVars, runVars, aggVars,
    apiVars,
    batchVars,
    tagVars,
    lookupVars>>

apiFrame == <<resolverVars, mainVars, mirrorVars, storeVars, runVars, aggVars, mergeVars,
    batchVars,
    tagVars,
    lookupVars>>

\* The steps of a batch are those of the resolver and the turns of the loop
batchFrame == <<mainVars, mirrorVars, storeVars, runVars, aggVars, mergeVars, apiVars,
    tagVars,
    lookupVars>>

tagFrame == <<resolverVars, mainVars, mirrorVars, storeVars, runVars, aggVars, mergeVars, apiVars, batchVars,
    lookupVars>>

lookupFrame == <<resolverVars, mainVars, mirrorVars, storeVars, runVars, aggVars, mergeVars, apiVars, batchVars, tagVars>>

TaskDone == taskState \in {"finished", "raised", "raised_timeout", "cancelled"}

(***************************************************************************)
(* The adapters main registers, fetch.py:45-57.  strmd is imported there   *)
(* (fetch.py:14) and its module is no part of the sources at hand; it is   *)
(* taken as the adapter the specification describes.                       *)
(***************************************************************************)
SourceAdapters == {"fstv", "lotus", "pixel", "ppv", "roxie", "streambtw",
                   "streameast", "strmfree", "tvpass", "watchfooty"}

SpecAdapters == {"strmd"}

Adapters == SourceAdapters \cup SpecAdapters

\* scrape asks network.get_base(MIRRORS) first and gives up without a mirror
MirrorAdapters == {"fstv", "roxie", "streameast", "watchfooty"}

\* get_events indexes the payload of an upstream API kept in a whole-blob cache
ApiAdapters == {"lotus", "pixel", "ppv", "strmfree", "watchfooty"}

\* scrape returns at once when its cache is not empty
WarmReturnAdapters == {"streambtw", "tvpass"}

\* the events are resolved in a browser: async_playwright(), network.browser
BrowserAdapters == {"lotus", "ppv", "streameast", "strmfree", "watchfooty"}

\* discovery yields the entries themselves, nothing goes through safe_process
DirectAdapters == {"pixel", "tvpass"}

\* the result of safe_process is unpacked into two names
UnpackAdapters == {"fstv"}

\* State of main once its tasks are created (fetch.py:45-57), following the
\* adapters of `run`; with run = {} nothing of main is followed.
MainStart(run) ==
    /\ lineup = run
    /\ mainPc = (IF run = {} THEN "off" ELSE "gather")
    /\ additions = {}
    /\ combinedWritten = FALSE
    /\ eventsWritten = FALSE
    /\ adPc = [a \in Adapters |-> IF a \in run THEN "start" ELSE "off"]
    /\ adSource = [a \in Adapters |-> "unknown"]
    /\ adN = [a \in Adapters |-> 0]
    /\ adResults = [a \in Adapters |-> <<>>]
    /\ adSaved = [a \in Adapters |-> FALSE]

\* get_base is not running
MirrorIdle ==
    /\ mirrors = <<>>
    /\ results = <<>>
    /\ arrival = <<>>
    /\ gbPc = "off"
    /\ gbRet = 0

\* no cache store is followed
StoreIdle ==
    /\ stPc = "off"
    /\ stDisk = "missing"
    /\ stFile = <<>>
    /\ stNow = 0
    /\ stLoaded = <<>>
    /\ stRaised = FALSE
    /\ stWritten = <<>>
    /\ stSince = "none"

\* no adapter's runs are followed
RunIdle ==
    /\ rnAdapter = "none"
    /\ rnSource = <<>>
    /\ rnPc = "off"
    /\ rnNow = 0
    /\ rnDisk = "missing"
    /\ rnFile = <<>>
    /\ rnCached = <<>>
    /\ rnLive = <<>>
    /\ rnEvents = <<>>
    /\ rnIdx = 0
    /\ rnAttempt = <<>>
    /\ rnRepeat = {}
    /\ rnFlight = {}
    /\ rnListed = FALSE
    /\ rnPrevComplete = FALSE
    /\ rnBase = "unknown"

\* None of the components outside safe_process and main is running
\* The numbering is not followed
AggIdle ==
    /\ agPc = "off"
    /\ agBase = <<>>
    /\ agChno = 0
    /\ agAdditions = {}
    /\ agLive = <<>>
    /\ agCombined = <<>>

\* The merge is not followed
MergeIdle ==
    /\ mgPc = "off"
    /\ mgMaps = <<>>
    /\ mgDone = <<>>
    /\ mgAdditions = <<>>
    /\ mgOut = <<>>

\* no upstream-response cache is followed
ApiIdle ==
    /\ apAdapter = "none"
    /\ apPc = "off"
    /\ apNow = 0
    /\ apDisk = "missing"
    /\ apBlob = [ts |-> -1, ok |-> FALSE]
    /\ apLoaded = [ts |-> -1, ok |-> FALSE]
    /\ apData = [ts |-> -1, ok |-> FALSE]
    /\ apRequests = 0
    /\ apLastFetch = -1
    /\ apRefetch = FALSE

\* no batch of resolutions is followed
BatchIdle ==
    /\ btIdx = 0
    /\ btPrev = "none"

\* no union of tagged maps is followed
TagIdle ==
    /\ tgPc = "off"
    /\ tgTasks = {}
    /\ tgEnded = {}
    /\ tgMaps = <<>>
    /\ tgAdditions = <<>>
    /\ tgLive = <<>>
    /\ tgCombined = <<>>

\* no lookup is followed
LookupIdle ==
    /\ lkPc = "off"
    /\ lkSport = "none"
    /\ lkEvent = <<>>
    /\ lkInfo = "none"

LibIdle == MirrorIdle /\ StoreIdle /\ RunIdle /\ AggIdle /\ MergeIdle /\ ApiIdle /\ BatchIdle /\ TagIdle /\ LookupIdle

(***************************************************************************)
(* State before safe_process is called with an operation of kind v.        *)
(***************************************************************************)
ResolverStart(v, hangs) ==
    /\ variant = v
    /\ opHangs = hangs
    /\ spPc = "create"
    /\ spResult = None
    /\ spRaised = FALSE
    /\ spTimedOut = FALSE
    /\ taskState = "none"
    /\ taskResult = None
    /\ mustCancel = FALSE
    /\ cancelCount = 0
    /\ pePc = "idle"
    /\ pePending = "return"
    /\ peRet = None
    /\ page = "none"
    /\ pageListener = FALSE
    /\ popup = "none"
    /\ popupListener = FALSE
    /\ captured = <<>>
    /\ gotOne = FALSE
    /\ closeCalls = 0
    /\ removeCalls = 0
    /\ waitTask = "none"
    /\ waitEnded = "no"

InitResolver ==
    \E v \in Variants : \E hangs \in BOOLEAN :
        /\ (hangs => v = "op")
        /\ ResolverStart(v, hangs)
        /\ MainStart({})
        /\ LibIdle

(***************************************************************************)
(* Frames.                                                                 *)
(***************************************************************************)
\* What no step of safe_process or of the operation changes: the kind of the
\* operation, and everything of main.
kindVars == <<variant, opHangs, mainVars, libVars>>

spVars == <<spPc, spResult, spRaised, spTimedOut>>

taskVars == <<taskState, taskResult>>

cancelVars == <<mustCancel, cancelCount>>

pageVars == <<page, pageListener, closeCalls, removeCalls>>

popupVars == <<popup, popupListener>>

captureVars == <<captured, gotOne>>

waitVars == <<waitTask, waitEnded>>

retVars == <<pePending, peRet>>

Running == taskState = "pending" /\ ~mustCancel

\* The first suspension point of fn() for each kind of operation.
FirstPc(v) == IF v = "op" THEN "op_run" ELSE "new_page"

(***************************************************************************)
(* Network.safe_process, webwork.py:52-82.                                 *)
(***************************************************************************)
\* webwork.py:63  task = asyncio.create_task(fn())
SafeProcessCreateTask ==
    /\ spPc = "create"
    /\ taskState' = "pending"
    /\ pePc' = FirstPc(variant)
    /\ spPc' = "wait_for"
    /\ UNCHANGED <<kindVars, spResult, spRaised, spTimedOut, taskResult, cancelVars, pageVars,
                   popupVars, captureVars, waitVars, retVars>>

\* Mutant of SafeProcessTaskDone: the operation's result is dropped (a missing
\* `return` before the await at webwork.py:66).
SafeProcessTaskDoneDropsResult ==
    /\ spPc = "wait_for"
    /\ TaskDone
    /\ IF taskState = "raised_timeout"
       THEN spPc' = "handler" /\ UNCHANGED <<spResult, spRaised>>
       ELSE spPc' = "returned" /\ spResult' = None /\ spRaised' = FALSE
    /\ UNCHANGED <<kindVars, spTimedOut, taskVars, cancelVars, pePc, pageVars,
                   popupVars, captureVars, waitVars, retVars>>

\* Mutant of SafeProcessTaskDone: no `except Exception` clause (webwork.py:80-82),
\* so the operation's exception escapes.
SafeProcessTaskDoneReraises ==
    /\ spPc = "wait_for"
    /\ TaskDone
    /\ CASE taskState = "finished" ->
                spPc' = "returned" /\ spResult' = taskResult /\ spRaised' = FALSE
         [] taskState = "raised_timeout" ->
                spPc' = "handler" /\ UNCHANGED <<spResult, spRaised>>
         [] OTHER ->
                spPc' = "raised" /\ spRaised' = TRUE /\ UNCHANGED spResult
    /\ UNCHANGED <<kindVars, spTimedOut, taskVars, cancelVars, pePc, pageVars,
                   popupVars, captureVars, waitVars, retVars>>

\* webwork.py:65-68, 80-82: the task is done before the deadline; wait_for
\* hands back its result or re-raises its exception.
SafeProcessTaskDone ==
    /\ spPc = "wait_for"
    /\ TaskDone
    /\ CASE taskState = "finished" ->
                spPc' = "returned" /\ spResult' = taskResult /\ spRaised' = FALSE
         [] taskState = "raised" ->
                spPc' = "returned" /\ spResult' = None /\ spRaised' = FALSE
         [] taskState = "raised_timeout" ->
                spPc' = "handler" /\ UNCHANGED <<spResult, spRaised>>
         [] OTHER ->    \* CancelledError is no Exception: it escapes
                spPc' = "raised" /\ spRaised' = TRUE /\ UNCHANGED spResult
    /\ UNCHANGED <<kindVars, spTimedOut, taskVars, cancelVars, pePc, pageVars,
                   popupVars, captureVars, waitVars, retVars>>

\* Mutant of SafeProcessDeadline: fire-and-forget, the task is cancelled at the
\* deadline and None returned without waiting for the task to end.
SafeProcessDeadlineForget ==
    /\ spPc = "wait_for"
    /\ taskState = "pending"
    /\ mustCancel' = TRUE
    /\ spTimedOut' = TRUE
    /\ spPc' = "returned"
    /\ spResult' = None
    /\ UNCHANGED <<kindVars, spRaised, taskVars, cancelCount, pePc, pageVars,
                   popupVars, captureVars, waitVars, retVars>>

\* Mutant of SafeProcessDeadline: the task is awaited without a timeout, no
\* deadline ever passes.
SafeProcessDeadlineNever ==
    /\ FALSE
    /\ UNCHANGED vars

\* webwork.py:66  the deadline passes with the task pending: wait_for cancels
\* the task and waits for it to end before it raises TimeoutError.
SafeProcessDeadline ==
    /\ spPc = "wait_for"
    /\ taskState = "pending"
    /\ mustCancel' = TRUE
    /\ spTimedOut' = TRUE
    /\ spPc' = "cancel_wait"
    /\ UNCHANGED <<kindVars, spResult, spRaised, taskVars, cancelCount, pePc, pageVars,
                   popupVars, captureVars, waitVars, retVars>>

\* webwork.py:66-68, 80-82: the cancelled task has ended; wait_for raises
\* TimeoutError, or the exception the task ended with, or returns its result.
SafeProcessCancelled ==
    /\ spPc = "cancel_wait"
    /\ TaskDone
    /\ CASE taskState \in {"cancelled", "raised_timeout"} ->
                spPc' = "handler" /\ UNCHANGED <<spResult, spRaised>>
         [] taskState = "raised" ->
                spPc' = "returned" /\ spResult' = None /\ spRaised' = FALSE
         [] OTHER ->
                spPc' = "returned" /\ spResult' = taskResult /\ spRaised' = FALSE
    /\ UNCHANGED <<kindVars, spTimedOut, taskVars, cancelVars, pePc, pageVars,
                   popupVars, captureVars, waitVars, retVars>>

\* webwork.py:70  task.cancel()
SafeProcessCancel ==
    /\ spPc = "handler"
    /\ mustCancel' = (IF taskState = "pending" THEN TRUE ELSE mustCancel)
    /\ spPc' = "await_task"
    /\ UNCHANGED <<kindVars, spResult, spRaised, spTimedOut, taskVars, cancelCount, pePc, pageVars,
                   popupVars, captureVars, waitVars, retVars>>

\* webwork.py:72-79  await task (CancelledError and Exception swallowed); return None
SafeProcessAwaitTask ==
    /\ spPc = "await_task"
    /\ TaskDone
    /\ spPc' = "returned"
    /\ spResult' = None
    /\ spRaised' = FALSE
    /\ UNCHANGED <<kindVars, spTimedOut, taskVars, cancelVars, pePc, pageVars,
                   popupVars, captureVars, waitVars, retVars>>

(***************************************************************************)
(* The wrapped operation fn, taken as any awaitable (webwork.py:54): it    *)
(* returns a value, raises, or never completes; cancelled, it runs its     *)
(* finally blocks and ends.                                                *)
(***************************************************************************)
OpRun ==
    /\ variant = "op" /\ pePc = "op_run" /\ Running
    /\ ~opHangs
    /\ \E how \in {"finished", "raised", "raised_timeout"} : \E v \in OpValues :
         /\ taskState' = how
         /\ taskResult' = (IF how = "finished" THEN v ELSE None)
    /\ pePc' = "done"
    /\ UNCHANGED <<kindVars, spVars, cancelVars, pageVars, popupVars, captureVars,
                   waitVars, retVars>>

OpCancelled ==
    /\ variant = "op" /\ pePc = "op_run"
    /\ taskState = "pending" /\ mustCancel
    /\ mustCancel' = FALSE
    /\ cancelCount' = cancelCount + 1
    /\ pePc' = "op_cleanup"
    /\ UNCHANGED <<kindVars, spVars, taskVars, pageVars, popupVars, captureVars,
                   waitVars, retVars>>

OpCleanup ==
    /\ variant = "op" /\ pePc = "op_cleanup"
    /\ taskState = "pending"
    /\ \E how \in {"cancelled", "raised"} : taskState' = how
    /\ pePc' = "done"
    /\ UNCHANGED <<kindVars, spVars, taskResult, cancelVars, pageVars, popupVars,
                   captureVars, waitVars, retVars>>

(***************************************************************************)
(* The request observer, webwork.py:84-102.                                *)
(***************************************************************************)
\* Mutant of CaptureReq: the flag is set on every request.
CaptureReqFlagsAll(u) ==
    /\ gotOne' = TRUE
    /\ captured' = (IF PatternSearch(u) THEN Append(captured, u) ELSE captured)

\* capture_req: a matching URL is appended and the flag set
CaptureReq(u) ==
    IF PatternSearch(u)
    THEN /\ captured' = Append(captured, u)
         /\ gotOne' = TRUE
    ELSE UNCHANGED <<captured, gotOne>>

\* The page (or the popup) sends a request while the handler is registered
\* on it: page.on("request", handler), webwork.py:125.
Request(u) ==
    /\ taskState = "pending"
    /\ \/ page = "open" /\ pageListener
       \/ popup = "open" /\ popupListener
    /\ PatternSearch(u) => Len(captured) < MaxCaptured
    /\ CaptureReq(u)
    /\ UNCHANGED <<kindVars, spVars, taskVars, cancelVars, pePc, pageVars, popupVars,
                   waitVars, retVars>>

(***************************************************************************)
(* The capture bridge: Network.process_event, webwork.py:104-164, and the  *)
(* steps that watchfooty.process_event (watchfooty.py:77-146) shares with  *)
(* it.  page.close() sends the close when it is called (page "closing")    *)
(* and the await that follows is a suspension point.                       *)
(***************************************************************************)
\* Mutant of Finally: the observer is removed and the page is left open.
FinallyNoClose(pending, ret) ==
    /\ pageListener' = FALSE
    /\ removeCalls' = removeCalls + 1
    /\ UNCHANGED <<page, closeCalls>>
    /\ pePending' = pending
    /\ peRet' = ret
    /\ pePc' = "close"

\* webwork.py:162-164  finally: page.remove_listener("request", handler);
\* await page.close() -- up to the suspension in close()
Finally(pending, ret) ==
    /\ pageListener' = FALSE
    /\ removeCalls' = removeCalls + 1
    /\ page' = "closing"
    /\ closeCalls' = closeCalls + 1
    /\ pePending' = pending
    /\ peRet' = ret
    /\ pePc' = "close"

\* webwork.py:113-125  page = await context.new_page(); page.on("request", handler)
PeNewPage(v) ==
    /\ variant = v /\ pePc = "new_page" /\ Running
    /\ \E ok \in BOOLEAN :
         IF ok
         THEN /\ page' = "open"
              /\ pageListener' = TRUE
              /\ pePc' = "goto"
              /\ UNCHANGED taskVars
         ELSE /\ taskState' = "raised"      \* raised outside the try block
              /\ pePc' = "done"
              /\ UNCHANGED <<page, pageListener, taskResult>>
    /\ UNCHANGED <<kindVars, spVars, cancelVars, closeCalls, removeCalls, popupVars,
                   captureVars, waitVars, retVars>>

\* webwork.py:128-134, 158-160  await page.goto(...): on success the next
\* step is `next`; an exception is caught, the call returns None.
PeGoto(v, next) ==
    /\ variant = v /\ pePc = "goto" /\ Running
    /\ \E ok \in BOOLEAN :
         IF ok
         THEN /\ pePc' = next
              /\ waitTask' = (IF next = "wait" THEN "pending" ELSE waitTask)
              /\ UNCHANGED <<pageVars, retVars>>
         ELSE /\ Finally("return", None)
              /\ UNCHANGED waitTask
    /\ UNCHANGED <<kindVars, spVars, taskVars, cancelVars, popupVars, captureVars,
                   waitEnded>>

\* webwork.py:136-153  the flag is set: wait_for returns, a captured URL is
\* returned (pick chooses which one).
PeWaitMatch(v, pick) ==
    /\ variant = v /\ pePc = "wait" /\ Running
    /\ gotOne
    /\ waitTask' = "done"
    /\ waitEnded' = "match"
    /\ Finally("return", IF captured # <<>> THEN captured[pick] ELSE None)
    /\ UNCHANGED <<kindVars, spVars, taskVars, cancelVars, popupVars, captureVars>>

\* webwork.py:137-149  the inner timeout passes with the flag unset:
\* wait_for cancels wait_task, process_event returns None.
PeWaitTimeout(v) ==
    /\ variant = v /\ pePc = "wait" /\ Running
    /\ ~gotOne
    /\ waitTask' = "cancelled"
    /\ waitEnded' = "timeout"
    /\ Finally("return", None)
    /\ UNCHANGED <<kindVars, spVars, taskVars, cancelVars, popupVars, captureVars>>

\* webwork.py:164  await page.close() completes (or raises): the pending
\* return or the pending CancelledError leaves process_event.
PeClose(v) ==
    /\ variant = v /\ pePc = "close" /\ Running
    /\ \E ok \in BOOLEAN :
         IF ok
         THEN /\ page' = "closed"
              /\ taskState' = (IF pePending = "cancel" THEN "cancelled" ELSE "finished")
              /\ taskResult' = (IF pePending = "cancel" THEN None ELSE peRet)
         ELSE /\ taskState' = "raised"
              /\ UNCHANGED <<page, taskResult>>
    /\ pePc' = "done"
    /\ UNCHANGED <<kindVars, spVars, cancelVars, pageListener, closeCalls, removeCalls,
                   popupVars, captureVars, waitVars, retVars>>

\* CancelledError is thrown into the await the operation is suspended at.
\* It is no Exception: webwork.py:158 does not catch it, the finally block
\* (162-164) runs unless the page is not opened yet or close() is under way.
PeCancelled(v) ==
    /\ variant = v /\ taskState = "pending" /\ mustCancel
    /\ pePc \in {"new_page", "goto", "selector", "wait", "close"}
    /\ mustCancel' = FALSE
    /\ cancelCount' = cancelCount + 1
    /\ IF pePc \in {"new_page", "close"}
       THEN /\ taskState' = "cancelled"
            /\ pePc' = "done"
            /\ UNCHANGED <<taskResult, pageVars, retVars, waitTask>>
       ELSE /\ Finally("cancel", None)
            /\ waitTask' = (IF pePc = "wait" THEN "cancelled" ELSE waitTask)
            /\ UNCHANGED taskVars
    /\ UNCHANGED <<kindVars, spVars, popupVars, captureVars, waitEnded>>

NetNewPage == PeNewPage("net")

NetGoto == PeGoto("net", "wait")

\* Mutant of NetWaitMatch: the last captured URL is returned, as watchfooty does.
NetWaitMatchLast == PeWaitMatch("net", Len(captured))

\* webwork.py:151-153  return captured[0]
NetWaitMatch == PeWaitMatch("net", 1)

NetWaitTimeout == PeWaitTimeout("net")

NetClose == PeClose("net")

NetCancelled == PeCancelled("net")

(***************************************************************************)
(* watchfooty.process_event, watchfooty.py:77-146.                         *)
(***************************************************************************)
\* watchfooty.py:82-90
WftyNewPage == PeNewPage("wfty")

\* watchfooty.py:93-97, 140-142
WftyGoto == PeGoto("wfty", "selector")

\* watchfooty.py:99-116  the "Stream Links (n)" header: found with n > 0 the
\* wait starts; not found in time, or n = 0, the call returns None.
WftySelector ==
    /\ variant = "wfty" /\ pePc = "selector" /\ Running
    /\ \E found \in BOOLEAN :
         IF found
         THEN /\ pePc' = "wait"
              /\ waitTask' = "pending"
              /\ UNCHANGED <<pageVars, retVars>>
         ELSE /\ Finally("return", None)
              /\ UNCHANGED waitTask
    /\ UNCHANGED <<kindVars, spVars, taskVars, cancelVars, popupVars, captureVars,
                   waitEnded>>

\* watchfooty.py:118-135  return captured[-1]
WftyWaitMatch == PeWaitMatch("wfty", Len(captured))

\* watchfooty.py:119-122
WftyWaitTimeout == PeWaitTimeout("wfty")

\* watchfooty.py:144-146
WftyClose == PeClose("wfty")

WftyCancelled == PeCancelled("wfty")

(***************************************************************************)
(* old/livetvsx.process_event, livetvsx.py:93-201: the capture bridge with *)
(* a scripted interaction.  It has no finally block: the clean-up is       *)
(* written out on the success path (174-181) and in `except Exception`     *)
(* (190-201).                                                              *)
(***************************************************************************)
\* A plain `return` (livetvsx.py:125, 128, 136, 163): nothing is closed.
LtvReturn(ret) ==
    /\ taskState' = "finished"
    /\ taskResult' = ret
    /\ pePc' = "done"

\* livetvsx.py:190-201  except Exception: page.remove_listener(...), the popup
\* closed if there is one, page.close(); an exception in here is swallowed.
\* remove_listener of a handler that was never registered may raise (the
\* emitter's choice), which skips the rest.
LtvExcept ==
    \E removeRaises \in BOOLEAN :
        /\ removeRaises => ~pageListener
        /\ removeCalls' = removeCalls + 1
        /\ pageListener' = FALSE
        /\ IF removeRaises
           THEN UNCHANGED <<page, closeCalls, popupVars>>
           ELSE /\ popupListener' = FALSE
                /\ popup' = (IF popup = "open" THEN "closing" ELSE popup)
                /\ page' = "closing"
                /\ closeCalls' = closeCalls + 1
        /\ pePending' = "return"
        /\ peRet' = None
        /\ pePc' = "except_close"

\* livetvsx.py:99-107  page = await context.new_page(); no handler yet
LtvNewPage ==
    /\ variant = "ltv" /\ pePc = "new_page" /\ Running
    /\ \E ok \in BOOLEAN :
         IF ok
         THEN /\ page' = "open"
              /\ pePc' = "goto"
              /\ UNCHANGED taskVars
         ELSE /\ taskState' = "raised"
              /\ pePc' = "done"
              /\ UNCHANGED <<page, taskResult>>
    /\ UNCHANGED <<kindVars, spVars, cancelVars, pageListener, closeCalls, removeCalls,
                   popupVars, captureVars, waitVars, retVars>>

\* livetvsx.py:110-114  await page.goto(...)
LtvGoto ==
    /\ variant = "ltv" /\ pePc = "goto" /\ Running
    /\ \E ok \in BOOLEAN :
         IF ok
         THEN /\ pePc' = "query_btn"
              /\ UNCHANGED <<pageVars, popupVars, retVars>>
         ELSE LtvExcept
    /\ UNCHANGED <<kindVars, spVars, taskVars, cancelVars, captureVars, waitVars>>

\* livetvsx.py:116-128  the Browser Links tab: clicked, click failed, not found
LtvClickTab ==
    /\ variant = "ltv" /\ pePc = "query_btn" /\ Running
    /\ \E how \in {"clicked", "click_failed", "not_found"} :
         IF how = "clicked"
         THEN /\ pePc' = "query_link"
              /\ UNCHANGED taskVars
         ELSE LtvReturn(None)
    /\ UNCHANGED <<kindVars, spVars, cancelVars, pageVars, popupVars, captureVars,
                   waitVars, retVars>>

\* livetvsx.py:130-138  the link image: found (page.on("request", handler)) or not
LtvQueryLink ==
    /\ variant = "ltv" /\ pePc = "query_link" /\ Running
    /\ \E found \in BOOLEAN :
         IF found
         THEN /\ pageListener' = TRUE
              /\ pePc' = "popup"
              /\ UNCHANGED taskVars
         ELSE /\ LtvReturn(None)
              /\ UNCHANGED pageListener
    /\ UNCHANGED <<kindVars, spVars, cancelVars, page, closeCalls, removeCalls,
                   popupVars, captureVars, waitVars, retVars>>

\* livetvsx.py:140-157  the click opens a popup, which is observed too, or
\* none appears in time (fallback click); wait_task is created
LtvPopup ==
    /\ variant = "ltv" /\ pePc = "popup" /\ Running
    /\ \E opened \in BOOLEAN :
         IF opened
         THEN popup' = "open" /\ popupListener' = TRUE
         ELSE UNCHANGED popupVars
    /\ waitTask' = "pending"
    /\ pePc' = "wait"
    /\ UNCHANGED <<kindVars, spVars, taskVars, cancelVars, pageVars, captureVars,
                   waitEnded, retVars>>

\* livetvsx.py:159-185  the flag is set: the observers are removed, the popup
\* and then the page closed, captured[-1] returned
LtvWaitMatch ==
    /\ variant = "ltv" /\ pePc = "wait" /\ Running
    /\ gotOne
    /\ waitTask' = "done"
    /\ waitEnded' = "match"
    /\ pageListener' = FALSE
    /\ removeCalls' = removeCalls + 1
    /\ IF popup = "open"
       THEN /\ popupListener' = FALSE
            /\ popup' = "closing"
            /\ pePc' = "close_popup"
            /\ UNCHANGED <<page, closeCalls>>
       ELSE /\ page' = "closing"
            /\ closeCalls' = closeCalls + 1
            /\ pePc' = "close_page"
            /\ UNCHANGED popupVars
    /\ pePending' = "return"
    /\ peRet' = (IF captured # <<>> THEN captured[Len(captured)] ELSE None)
    /\ UNCHANGED <<kindVars, spVars, taskVars, cancelVars, captureVars>>

\* livetvsx.py:160-172  the inner timeout passes: wait_task is cancelled and
\* the call returns at line 163, before the clean-up of 174-181
LtvWaitTimeout ==
    /\ variant = "ltv" /\ pePc = "wait" /\ Running
    /\ ~gotOne
    /\ waitTask' = "cancelled"
    /\ waitEnded' = "timeout"
    /\ LtvReturn(None)
    /\ UNCHANGED <<kindVars, spVars, cancelVars, pageVars, popupVars, captureVars,
                   retVars>>

\* livetvsx.py:179-181  await popup.close() completes; page.close() is called
LtvClosePopup ==
    /\ variant = "ltv" /\ pePc = "close_popup" /\ Running
    /\ \E ok \in BOOLEAN :
         IF ok
         THEN /\ popup' = "closed"
              /\ page' = "closing"
              /\ closeCalls' = closeCalls + 1
              /\ pePc' = "close_page"
              /\ UNCHANGED <<pageListener, removeCalls, popupListener, retVars>>
         ELSE LtvExcept
    /\ UNCHANGED <<kindVars, spVars, taskVars, cancelVars, captureVars, waitVars>>

\* livetvsx.py:181-188  await page.close() completes; the captured URL is returned
LtvClosePage ==
    /\ variant = "ltv" /\ pePc = "close_page" /\ Running
    /\ \E ok \in BOOLEAN :
         IF ok
         THEN /\ page' = "closed"
              /\ LtvReturn(peRet)
              /\ UNCHANGED <<pageListener, closeCalls, removeCalls, popupVars, retVars>>
         ELSE /\ LtvExcept
              /\ UNCHANGED taskVars
    /\ UNCHANGED <<kindVars, spVars, cancelVars, captureVars, waitVars>>

\* livetvsx.py:197-201  the closes of the except block complete (an exception
\* in them is swallowed); the function ends, returning None
LtvExceptClose ==
    /\ variant = "ltv" /\ pePc = "except_close" /\ Running
    /\ \E ok \in BOOLEAN :
         IF ok
         THEN /\ page' = (IF page = "closing" THEN "closed" ELSE page)
              /\ popup' = (IF popup = "closing" THEN "closed" ELSE popup)
         ELSE UNCHANGED <<page, popup>>
    /\ LtvReturn(None)
    /\ UNCHANGED <<kindVars, spVars, cancelVars, pageListener, closeCalls, removeCalls,
                   popupListener, captureVars, waitVars, retVars>>

\* CancelledError is thrown into the await the operation is suspended at:
\* `except Exception` (livetvsx.py:190) does not catch it and there is no
\* finally block but the one that cancels wait_task (165-172).
LtvCancelled ==
    /\ variant = "ltv" /\ taskState = "pending" /\ mustCancel
    /\ pePc \in {"new_page", "goto", "query_btn", "query_link", "popup", "wait",
                 "close_popup", "close_page", "except_close"}
    /\ mustCancel' = FALSE
    /\ cancelCount' = cancelCount + 1
    /\ taskState' = "cancelled"
    /\ waitTask' = (IF pePc = "wait" THEN "cancelled" ELSE waitTask)
    /\ pePc' = "done"
    /\ UNCHANGED <<kindVars, spVars, taskResult, pageVars, popupVars, captureVars,
                   waitEnded, retVars>>

NextResolver ==
    \/ SafeProcessCreateTask
    \/ SafeProcessTaskDone
    \/ SafeProcessDeadline
    \/ SafeProcessCancelled
    \/ SafeProcessCancel
    \/ SafeProcessAwaitTask
    \/ OpRun
    \/ OpCancelled
    \/ OpCleanup
    \/ \E u \in ReqUrls : Request(u)
    \/ NetNewPage
    \/ NetGoto
    \/ NetWaitMatch
    \/ NetWaitTimeout
    \/ NetClose
    \/ NetCancelled
    \/ WftyNewPage
    \/ WftyGoto
    \/ WftySelector
    \/ WftyWaitMatch
    \/ WftyWaitTimeout
    \/ WftyClose
    \/ WftyCancelled
    \/ LtvNewPage
    \/ LtvGoto
    \/ LtvClickTab
    \/ LtvQueryLink
    \/ LtvPopup
    \/ LtvWaitMatch
    \/ LtvWaitTimeout
    \/ LtvClosePopup
    \/ LtvClosePage
    \/ LtvExceptClose
    \/ LtvCancelled

SpecResolver == InitResolver /\ [][NextResolver]_vars

(***************************************************************************)
(* The adapters' scrape, one action per stretch between suspension points. *)
(* A resolution is one step here: safe_process returns the URL or None.    *)
(***************************************************************************)
adVars == <<adPc, adSource, adN, adResults, adSaved>>

outVars == <<additions, combinedWritten, eventsWritten>>

Terminal == {"done", "raised", "cancelled", "off"}

\* The events whose resolution gave a URL: the entries scrape put in urls.
Live(a) == {i \in 1..Len(adResults[a]) : adResults[a][i] = "url"}

AdLoadWaits(a) ==
    /\ adPc[a] = "start"
    /\ \A b \in lineup \ {a} : adPc[b] # "loop"
    /\ \E warm \in BOOLEAN :
         adPc' = [adPc EXCEPT ![a] =
                    IF a \in WarmReturnAdapters /\ warm THEN "done"
                    ELSE IF a \in MirrorAdapters THEN "get_base"
                    ELSE "get_events"]
    /\ UNCHANGED <<resolverVars, libVars, lineup, mainPc, outVars, adSource, adN, adResults,
                   adSaved>>

\* fstv.py:115-120, streambtw.py:80-83: the cache is loaded; streambtw and
\* tvpass return at once when it is not empty.
AdLoad(a) ==
    /\ adPc[a] = "start"
    /\ \E warm \in BOOLEAN :
         adPc' = [adPc EXCEPT ![a] =
                    IF a \in WarmReturnAdapters /\ warm THEN "done"
                    ELSE IF a \in MirrorAdapters THEN "get_base"
                    ELSE "get_events"]
    /\ UNCHANGED <<resolverVars, libVars, lineup, mainPc, outVars, adSource, adN, adResults,
                   adSaved>>

\* fstv.py:122-127: no mirror answers: the cache is written back and scrape returns
AdGetBase(a) ==
    /\ adPc[a] = "get_base"
    /\ \E found \in BOOLEAN :
         IF found
         THEN /\ adPc' = [adPc EXCEPT ![a] = "get_events"]
              /\ UNCHANGED <<adSource, adSaved>>
         ELSE /\ adPc' = [adPc EXCEPT ![a] = "done"]
              /\ adSource' = [adSource EXCEPT ![a] = "no_mirror"]
              /\ adSaved' = [adSaved EXCEPT ![a] = TRUE]
    /\ UNCHANGED <<resolverVars, libVars, lineup, mainPc, outVars, adN, adResults>>

\* What follows discovery when it returned n events.
AfterEvents(a, n) ==
    IF a \in DirectAdapters
    THEN /\ adResults' = [adResults EXCEPT ![a] = [i \in 1..n |-> "url"]]
         /\ adSaved' = [adSaved EXCEPT ![a] = TRUE]
         /\ adPc' = [adPc EXCEPT ![a] = "done"]
    ELSE IF n = 0
    THEN /\ adSaved' = [adSaved EXCEPT ![a] = TRUE]
         /\ adPc' = [adPc EXCEPT ![a] = "done"]
         /\ UNCHANGED adResults
    ELSE /\ adPc' = [adPc EXCEPT ![a] =
                       IF a \in BrowserAdapters THEN "browser" ELSE "loop"]
         /\ UNCHANGED <<adResults, adSaved>>

\* get_events.  With the API blob fresh in the cache nothing is fetched.
\* Otherwise the upstream is asked: lotus.py:24-63, ppv.py:21-58 -- a failed
\* refresh returns {} and api_data["days"] / ["streams"] raises KeyError
\* (pixel.py:65 "events", strmfree.py:61 "streams"; watchfooty.py:72 data[-1]
\* of an empty list raises IndexError).  The adapters that fetch a page take
\* a failure as no events (fstv.py:66-72); tvpass returns without writing
\* (tvpass.py:38-40).
AdGetEvents(a) ==
    /\ adPc[a] = "get_events"
    /\ \E fresh \in BOOLEAN : \E up \in BOOLEAN : \E n \in 0..MaxEvents :
         /\ fresh => a \in ApiAdapters \cup {"roxie"}
         /\ fresh => up
         /\ ~up => n = 0
         /\ adN' = [adN EXCEPT ![a] = n]
         /\ adSource' = [adSource EXCEPT ![a] =
                           IF fresh THEN "unknown" ELSE IF up THEN "up" ELSE "down"]
         /\ IF ~up /\ a \in ApiAdapters
            THEN /\ adPc' = [adPc EXCEPT ![a] = "raised"]
                 /\ UNCHANGED <<adResults, adSaved>>
            ELSE IF ~up /\ a = "tvpass"
            THEN /\ adPc' = [adPc EXCEPT ![a] = "done"]
                 /\ UNCHANGED <<adResults, adSaved>>
            ELSE AfterEvents(a, n)
    /\ UNCHANGED <<resolverVars, libVars, lineup, mainPc, outVars>>

\* ppv.py:110-111: async with async_playwright(); network.browser(p) launches
\* the browser or connects to one (webwork.py:173-177), which may fail
AdBrowser(a) ==
    /\ adPc[a] = "browser"
    /\ \E ok \in BOOLEAN :
         adPc' = [adPc EXCEPT ![a] = IF ok THEN "loop" ELSE "raised"]
    /\ UNCHANGED <<resolverVars, libVars, lineup, mainPc, outVars, adSource, adN, adResults,
                   adSaved>>

AdResolveShared(a) ==
    /\ adPc[a] = "loop"
    /\ Len(adResults[a]) < adN[a]
    /\ \E r \in {"url", "none"} :
         /\ adResults' = [b \in DOMAIN adResults |->
                            IF b \in lineup THEN Append(adResults[b], r)
                            ELSE adResults[b]]
         /\ IF Len(adResults[a]) + 1 < adN[a]
            THEN UNCHANGED <<adPc, adSaved>>
            ELSE /\ adPc' = [adPc EXCEPT ![a] = "done"]
                 /\ adSaved' = [adSaved EXCEPT ![a] = TRUE]
    /\ UNCHANGED <<resolverVars, libVars, lineup, mainPc, outVars, adSource, adN>>

\* One turn of the loop, ppv.py:113-149: url = await network.safe_process(...)
\* and the entry kept `if url`.  fstv.py:148 unpacks the result into
\* match_name, url: None cannot be unpacked, TypeError leaves scrape.  After
\* the last event the cache is written (ppv.py:151-158), once the browser is
\* closed where there is one.
AdResolve(a) ==
    /\ adPc[a] = "loop"
    /\ Len(adResults[a]) < adN[a]
    /\ \E r \in {"url", "none"} :
         /\ adResults' = [adResults EXCEPT ![a] = Append(@, r)]
         /\ IF r = "none" /\ a \in UnpackAdapters
            THEN /\ adPc' = [adPc EXCEPT ![a] = "raised"]
                 /\ UNCHANGED adSaved
            ELSE IF Len(adResults[a]) + 1 < adN[a]
            THEN UNCHANGED <<adPc, adSaved>>
            ELSE IF a \in BrowserAdapters
            THEN /\ adPc' = [adPc EXCEPT ![a] = "close_browser"]
                 /\ UNCHANGED adSaved
            ELSE /\ adPc' = [adPc EXCEPT ![a] = "done"]
                 /\ adSaved' = [adSaved EXCEPT ![a] = TRUE]
    /\ UNCHANGED <<resolverVars, libVars, lineup, mainPc, outVars, adSource, adN>>

\* ppv.py:151-158: await browser.close() returns; CACHE_FILE.write(cached_urls)
AdCloseBrowser(a) ==
    /\ adPc[a] = "close_browser"
    /\ adPc' = [adPc EXCEPT ![a] = "done"]
    /\ adSaved' = [adSaved EXCEPT ![a] = TRUE]
    /\ UNCHANGED <<resolverVars, libVars, lineup, mainPc, outVars, adSource, adN, adResults>>

\* A step of the task of adapter a: fetch.py:46-56, each scrape is a task of
\* its own, resumed by the event loop whenever what it awaits is ready
AdStep(a) ==
    \/ AdLoad(a)
    \/ AdGetBase(a)
    \/ AdGetEvents(a)
    \/ AdBrowser(a)
    \/ AdResolve(a)
    \/ AdCloseBrowser(a)

\* Adapter a is in its loop with the resolution of an event pending
Resolving(a) == adPc[a] = "loop" /\ Len(adResults[a]) < adN[a]

(***************************************************************************)
(* fetch.main, fetch.py:42-117, and the shutdown of asyncio.run.           *)
(***************************************************************************)
MainGatherDoneAny ==
    /\ mainPc = "gather"
    /\ \E a \in lineup : adPc[a] = "done"
    /\ mainPc' = "merge"
    /\ UNCHANGED <<resolverVars, libVars, lineup, outVars, adVars>>

\* fetch.py:59  await asyncio.gather(*tasks): every task returned
MainGatherDone ==
    /\ mainPc = "gather"
    /\ \A a \in lineup : adPc[a] = "done"
    /\ mainPc' = "merge"
    /\ UNCHANGED <<resolverVars, libVars, lineup, outVars, adVars>>

\* fetch.py:59  gather without return_exceptions: the first exception of a
\* task is raised in main at once, and nothing in main catches it
MainGatherRaises ==
    /\ mainPc = "gather"
    /\ \E a \in lineup : adPc[a] = "raised"
    /\ mainPc' = "failed"
    /\ UNCHANGED <<resolverVars, libVars, lineup, outVars, adVars>>

\* fetch.py:61-102: the adapters' urls are merged and the channels built
MainMerge ==
    /\ mainPc = "merge"
    /\ additions' = UNION {{<<a, i>> : i \in Live(a)} : a \in lineup}
    /\ mainPc' = "write_combined"
    /\ UNCHANGED <<resolverVars, libVars, lineup, combinedWritten, eventsWritten, adVars>>

\* fetch.py:104-109
MainWriteCombined ==
    /\ mainPc = "write_combined"
    /\ combinedWritten' = TRUE
    /\ mainPc' = "write_events"
    /\ UNCHANGED <<resolverVars, libVars, lineup, additions, eventsWritten, adVars>>

\* fetch.py:111-117
MainWriteEvents ==
    /\ mainPc = "write_events"
    /\ eventsWritten' = TRUE
    /\ mainPc' = "done"
    /\ UNCHANGED <<resolverVars, libVars, lineup, additions, combinedWritten, adVars>>

\* fetch.py:120-121  asyncio.run(main()): main ended by an exception, the
\* tasks still running are cancelled; a cancelled scrape writes nothing.
ShutdownCancel(a) ==
    /\ mainPc = "failed"
    /\ adPc[a] \notin Terminal
    /\ adPc' = [adPc EXCEPT ![a] = "cancelled"]
    /\ UNCHANGED <<resolverVars, libVars, lineup, mainPc, outVars, adSource, adN, adResults,
                   adSaved>>

\* fetch.py:45-57  the tasks in the order main creates them
TaskOrder == <<"fstv", "lotus", "pixel", "ppv", "roxie", "streambtw", "streameast",
               "strmd", "strmfree", "tvpass", "watchfooty">>

\* The NumRunning tasks created from the k-th on (cyclically): a run of the
\* model follows these and leaves the other tasks out.
Window(k) == {TaskOrder[((k + j - 1) % Len(TaskOrder)) + 1] : j \in 0..(NumRunning - 1)}

Lineups == {Window(k) : k \in 1..Len(TaskOrder)}

Init ==
    /\ \E run \in Lineups : MainStart(run)
    /\ ResolverStart("op", FALSE)
    /\ LibIdle

Next ==
    \/ \E a \in Adapters : AdLoad(a)
    \/ \E a \in Adapters : AdGetBase(a)
    \/ \E a \in Adapters : AdGetEvents(a)
    \/ \E a \in Adapters : AdBrowser(a)
    \/ \E a \in Adapters : AdResolve(a)
    \/ \E a \in Adapters : AdCloseBrowser(a)
    \/ \E a \in Adapters : ShutdownCancel(a)
    \/ MainGatherDone
    \/ MainGatherRaises
    \/ MainMerge
    \/ MainWriteCombined
    \/ MainWriteEvents

Spec == Init /\ [][Next]_vars

(***************************************************************************)
(* The mirror selector: Network.check_status and Network.get_base,         *)
(* webwork.py:33-50.                                                       *)
(***************************************************************************)
\* What the probe of a candidate can meet: status 200; another status that
\* raise_for_status lets through; an httpx.HTTPError (error status, timeout,
\* transport error); an exception that is no httpx.HTTPError.
ProbeOutcomes == {"ok", "not200", "http_error", "raises"}

\* webwork.py:33-40  check_status: True on status 200, False on another
\* status and on the exceptions it catches; any other exception leaves it,
\* and gather(return_exceptions=True) puts the exception object in results.
CheckStatus(m) ==
    CASE m = "ok" -> "true"
      [] m \in {"not200", "http_error"} -> "false"
      [] OTHER -> "exception"

\* webwork.py:46-48  `if success`: the truth value of a result; an exception
\* object is true.
Truthy(r) == r \in {"true", "exception"}

\* webwork.py:50  working_mirrors[0] if working_mirrors else None
FirstOf(S) == IF S = {} THEN 0 ELSE CHOOSE i \in S : \A j \in S : i <= j

\* webwork.py:43-44  the probes are started together
MirrorStart(ms) ==
    /\ mirrors = ms
    /\ results = [i \in 1..Len(ms) |-> "pending"]
    /\ arrival = <<>>
    /\ gbPc = "gather"
    /\ gbRet = 0

InitMirror ==
    /\ \E n \in 1..MaxMirrors : \E ms \in [1..n -> ProbeOutcomes] : MirrorStart(ms)
    /\ ResolverStart("op", FALSE)
    /\ MainStart({})
    /\ StoreIdle
    /\ RunIdle
    /\ AggIdle
    /\ MergeIdle
    /\ ApiIdle
    /\ BatchIdle
    /\ TagIdle
    /\ LookupIdle

\* webwork.py:44  one probe completes, in any order; gather keeps its result
\* at the position of its mirror
ProbeCompletes(i) ==
    /\ gbPc = "gather"
    /\ i \in 1..Len(mirrors)
    /\ results[i] = "pending"
    /\ results' = [results EXCEPT ![i] = CheckStatus(mirrors[i])]
    /\ arrival' = Append(arrival, i)
    /\ UNCHANGED <<mirrorFrame, mirrors, gbPc, gbRet>>

\* webwork.py:44-50  every probe is done: the mirrors whose result is true
\* are kept in input order and the first one returned
GetBaseReturn ==
    /\ gbPc = "gather"
    /\ \A i \in 1..Len(mirrors) : results[i] # "pending"
    /\ gbRet' = FirstOf({i \in 1..Len(mirrors) : Truthy(results[i])})
    /\ gbPc' = "returned"
    /\ UNCHANGED <<mirrorFrame, mirrors, results, arrival>>

NextMirror ==
    \/ \E i \in 1..MaxMirrors : ProbeCompletes(i)
    \/ GetBaseReturn

SpecMirror == InitMirror /\ [][NextMirror]_vars

(***************************************************************************)
(* The cache store: the Cache objects the adapters build (lotus.py:13-15)  *)
(* and call (lotus.py:100, 161).  The class itself (utils/caching.py) is   *)
(* not among the source files: load and write are modelled from the        *)
(* contract of the cache store (per-entry mode).                           *)
(***************************************************************************)
\* lotus.py:13  Cache(..., exp=3_600): the TTL of the store, in seconds
Exp == 3600

\* The instants the clock takes: the start, and around one TTL later
Instants == {0, 1, Exp - 1, Exp, Exp + 1}

\* The timestamps entries carry
Stamps == {0, 1}

Keys == 1..MaxKeys

\* An entry as the store sees it: its timestamp (the other fields are the
\* adapter's)
Entries == [ts : Stamps]

\* The maps from keys to entries
Maps == UNION {[S -> Entries] : S \in SUBSET Keys}

Restrict(m, S) == [k \in S |-> m[k]]

\* m with the entries of n added or replaced (dict.update)
Update(m, n) ==
    [k \in (DOMAIN m) \cup (DOMAIN n) |-> IF k \in DOMAIN n THEN n[k] ELSE m[k]]

\* Mutant of CacheLoad: an entry whose age equals the TTL is still returned.
CacheLoadKeepsAtTtl(disk, file, now, exp) ==
    IF disk # "ok" THEN <<>>
    ELSE Restrict(file, {k \in DOMAIN file : now - file[k].ts <= exp})

\* load(): the entries of the snapshot whose age, now - timestamp, is under
\* the TTL; nothing is deleted on disk.  A missing or corrupt snapshot gives
\* the empty map.
CacheLoad(disk, file, now, exp) ==
    IF disk # "ok" THEN <<>>
    ELSE Restrict(file, {k \in DOMAIN file : now - file[k].ts < exp})

\* Mutant of CacheLoadRaises: an unreadable snapshot makes load() raise.
CacheLoadRaisesOnDamage(disk) == disk # "ok"

\* load() fails open: it raises on no snapshot
CacheLoadRaises(disk) == FALSE

\* Mutant of CacheWrite: the map is merged into the stored one.
CacheWriteMerges(file, m) == Update(file, m)

\* write(m): the stored map is replaced by m
CacheWrite(file, m) == m

StoreStart ==
    /\ stPc = "idle"
    /\ stDisk = "missing"
    /\ stFile = <<>>
    /\ stNow = 0
    /\ stLoaded = <<>>
    /\ stRaised = FALSE
    /\ stWritten = <<>>
    /\ stSince = "none"

InitStore ==
    /\ StoreStart
    /\ MirrorIdle
    /\ RunIdle
    /\ AggIdle
    /\ MergeIdle
    /\ ApiIdle
    /\ BatchIdle
    /\ TagIdle
    /\ LookupIdle
    /\ ResolverStart("op", FALSE)
    /\ MainStart({})

\* lotus.py:100  cached_urls = CACHE_FILE.load()
StoreLoad ==
    /\ stPc # "off"
    /\ stRaised' = CacheLoadRaises(stDisk)
    /\ stLoaded' = CacheLoad(stDisk, stFile, stNow, Exp)
    /\ stPc' = "loaded"
    /\ UNCHANGED <<storeFrame, stDisk, stFile, stNow,
                   stWritten, stSince>>

\* lotus.py:161  CACHE_FILE.write(cached_urls)
StoreWrite(m) ==
    /\ stPc # "off"
    /\ stFile' = CacheWrite(stFile, m)
    /\ stDisk' = "ok"
    /\ stWritten' = m
    /\ stSince' = "write"
    /\ stPc' = "written"
    /\ UNCHANGED <<storeFrame, stNow, stLoaded, stRaised>>

\* Time passes between two calls
StoreTick(t) ==
    /\ stPc # "off"
    /\ t > stNow
    /\ stNow' = t
    /\ stSince' = "none"
    /\ stPc' = "idle"
    /\ UNCHANGED <<storeFrame, stDisk, stFile, stLoaded,
                   stRaised, stWritten>>

\* Between two runs the snapshot is removed or made unreadable
StoreDamage(d) ==
    /\ stPc # "off"
    /\ stDisk = "ok"
    /\ stDisk' = d
    /\ stFile' = <<>>
    /\ stSince' = "none"
    /\ stPc' = "idle"
    /\ UNCHANGED <<storeFrame, stNow, stLoaded, stRaised,
                   stWritten>>

NextStore ==
    \/ StoreLoad
    \/ \E m \in Maps : StoreWrite(m)
    \/ \E t \in Instants : StoreTick(t)
    \/ \E d \in {"missing", "corrupt"} : StoreDamage(d)

SpecStore == InitStore /\ [][NextStore]_vars

(***************************************************************************)
(* The successive runs of one adapter: scrape and get_events of the ten    *)
(* adapters under scrapers/, each run a new process (the module-level urls *)
(* starts empty), the snapshot of CACHE_FILE kept from one run to the      *)
(* next.  The source lists the same events in every run; whether it        *)
(* answers, and what each resolution gives, is free in every run.  The     *)
(* stores of all adapters are given the TTL Exp, and the secondary API and *)
(* HTML caches are left out: they only decide whether the listing is       *)
(* fetched again.                                                          *)
(***************************************************************************)
\* ppv.py:52-53  the window of discovery, 30 minutes either side of now
HalfHour == 1800

\* fstv.py:94-97  get_events skips the hrefs of the cached entries; the key
\* is built after the resolution (fstv.py:155-159).  streambtw.py:44 and
\* tvpass.py:28 are given no keys.  The others skip the cached keys
\* (ppv.py:73-76).
DedupBy(a) ==
    IF a = "fstv" THEN "href"
    ELSE IF a \in WarmReturnAdapters THEN "none"
    ELSE "key"

\* fstv.py:138, 169  "timestamp": now -- the instant of the run; the others
\* stamp an entry with the start of its event (ppv.py:88, 144)
StampsNow == {"fstv", "lotus", "streambtw", "tvpass"}

\* ppv.py:78-81  only the events that start within the window are returned.
\* The window of strmfree, an hour before to a quarter after
\* (strmfree.py:58-59), is like the others shorter than the TTL of its
\* store, and is given the same half hour.
NearAdapters == {"pixel", "ppv", "roxie", "strmfree", "watchfooty"}

NoTombstoneAdapters == {}

\* watchfooty.py:255-267  the entry is put in cached_urls whatever url is,
\* and in urls only `if url`
TombstoneAdapters == {"watchfooty"}

\* An event as the source lists it: the composite key scrape will file it
\* under, the start of the event, and whether the source shows it as LIVE
SourceEvents == [key : Keys, ets : Stamps, live : BOOLEAN]

Near(ets, now) == now - HalfHour <= ets /\ ets <= now + HalfHour

\* ppv.py:78-81; streameast.py:86  time_text == "LIVE" or inside the window
Listed(a, e, now) ==
    IF a \in NearAdapters THEN Near(e.ets, now)
    ELSE IF a = "streameast" THEN e.live \/ Near(e.ets, now)
    ELSE TRUE

\* ppv.py:73-76  if cached_keys & {key}: continue; fstv.py:94-95 by href
Known(a, i, src, cached) ==
    CASE DedupBy(a) = "key" -> src[i].key \in DOMAIN cached
      [] DedupBy(a) = "href" -> \E k \in DOMAIN cached : cached[k].href = i
      [] OTHER -> FALSE

\* The adapters that collect what they find in a dict under its key, where
\* a key found again replaces the value and keeps its place: roxie before
\* the events are filtered (roxie.py:66-94), pixel and tvpass after
\* (pixel.py:87-98, tvpass.py:56-70)
KeyedAdapters == {"pixel", "roxie", "tvpass"}

\* The position in C that lists the key of position i last
SameKeyLast(src, C, i) ==
    CHOOSE j \in C : /\ src[j].key = src[i].key
                     /\ \A l \in C : src[l].key = src[i].key => l <= j

\* get_events, ppv.py:37-92: the listed events that are not known, in the
\* order of the source (as positions in it).  ppv appends each of them to a
\* list (ppv.py:83-91), and so do the others but the keyed ones
Discover(a, src, cached, now) ==
    LET all == [i \in 1..Len(src) |-> i]
        ok(i) == Listed(a, src[i], now) /\ ~Known(a, i, src, cached)
        C == IF a = "roxie" THEN 1..Len(src) ELSE {i \in 1..Len(src) : ok(i)}
        first(i) == i \in C /\ \A j \in C : src[j].key = src[i].key => i <= j
        firsts == SelectSeq(all, first)
        reps == [n \in 1..Len(firsts) |-> SameKeyLast(src, C, firsts[n])]
    IN  IF a \in KeyedAdapters THEN SelectSeq(reps, ok) ELSE SelectSeq(all, ok)

\* ppv.py:139-145  the entry built for event i of the source
Entry(a, src, i, url, now) ==
    [ts |-> IF a \in StampsNow THEN now ELSE src[i].ets,
     url |-> url,
     href |-> IF a = "fstv" THEN i ELSE 0]

ValidKeepsAll(m) == m

\* The entries of a map that have a URL: watchfooty.py:206
Valid(m) == Restrict(m, {k \in DOMAIN m : m[k].url # ""})

\* pixel.py:113-116, tvpass.py:43-70: the events become entries at once
DirectEntries(a, src, evs, now) ==
    [k \in {src[evs[j]].key : j \in 1..Len(evs)} |->
        Entry(a, src, CHOOSE i \in {evs[j] : j \in 1..Len(evs)} : src[i].key = k,
              "u", now)]

RunStart(a, src) ==
    /\ rnAdapter = a
    /\ rnSource = src
    /\ rnPc = "load"
    /\ rnNow = 0
    /\ rnDisk = "missing"
    /\ rnFile = <<>>
    /\ rnCached = <<>>
    /\ rnLive = <<>>
    /\ rnEvents = <<>>
    /\ rnIdx = 0
    /\ rnAttempt = [k \in Keys |-> -1]
    /\ rnRepeat = {}
    /\ rnFlight = {}
    /\ rnListed = FALSE
    /\ rnPrevComplete = FALSE
    /\ rnBase = "unknown"

InitRuns ==
    /\ \E a \in SourceAdapters : \E n \in 0..MaxListed :
         \E src \in [1..n -> SourceEvents] :
            \* keys are names: they are numbered in the order the listing
            \* first shows them
            /\ \A i \in 1..n : \A k \in 1..(src[i].key - 1) :
                                    \E j \in 1..(i - 1) : src[j].key = k
            /\ \A i \in 1..n : src[i].live => a = "streameast"
            /\ \A i \in 1..n : src[i].ets # 0 => a \notin StampsNow
            /\ RunStart(a, src)
    /\ MirrorIdle
    /\ StoreIdle
    /\ AggIdle
    /\ MergeIdle
    /\ ApiIdle
    /\ BatchIdle
    /\ TagIdle
    /\ LookupIdle
    /\ ResolverStart("op", FALSE)
    /\ MainStart({})

\* ppv.py:97-99  cached_urls = CACHE_FILE.load(); urls.update(cached_urls)
\* (watchfooty.py:205-208: only the entries with a URL go to urls);
\* streambtw.py:80-83: with a cache that is not empty scrape returns
RunLoad ==
    /\ rnPc = "load"
    /\ LET loaded == CacheLoad(rnDisk, rnFile, rnNow, Exp) IN
         /\ rnCached' = loaded
         /\ rnLive' = (IF rnAdapter \in TombstoneAdapters THEN Valid(loaded) ELSE loaded)
         /\ rnPc' = (IF rnAdapter \in WarmReturnAdapters /\ loaded # <<>> THEN "returned"
                     ELSE IF rnAdapter \in MirrorAdapters THEN "get_base"
                     ELSE "get_events")
    /\ UNCHANGED <<runFrame, rnAdapter, rnSource, rnNow, rnDisk, rnFile, rnEvents,
                   rnIdx, rnAttempt, rnRepeat, rnListed, rnPrevComplete, rnBase, rnFlight>>

\* Mutant of RunGetBase: without a mirror scrape goes on to get_events.
RunGetBaseGoesOn ==
    /\ rnPc = "get_base"
    /\ \E found \in BOOLEAN :
         /\ rnBase' = (IF found THEN "found" ELSE "none")
         /\ rnPc' = "get_events"
    /\ UNCHANGED <<runFrame, rnAdapter, rnSource, rnNow, rnDisk, rnFile, rnCached,
                   rnLive, rnEvents, rnIdx, rnAttempt, rnRepeat, rnListed,
                   rnPrevComplete, rnFlight>>

\* fstv.py:122-127  a mirror is found, or the cache is written back
RunGetBase ==
    /\ rnPc = "get_base"
    /\ \E found \in BOOLEAN :
         /\ rnBase' = (IF found THEN "found" ELSE "none")
         /\ rnPc' = (IF found THEN "get_events" ELSE "write")
    /\ UNCHANGED <<runFrame, rnAdapter, rnSource, rnNow, rnDisk, rnFile, rnCached,
                   rnLive, rnEvents, rnIdx, rnAttempt, rnRepeat, rnListed,
                   rnPrevComplete, rnFlight>>

\* get_events and what scrape does with its result.  The upstream down:
\* the API adapters raise (lotus.py:63), tvpass returns (tvpass.py:38-40),
\* the others have no events (fstv.py:66-72).  pixel and tvpass make the
\* entries at once (pixel.py:111-116).
RunGetEvents ==
    /\ rnPc = "get_events"
    /\ \E up \in BOOLEAN :
         LET evs == IF up THEN Discover(rnAdapter, rnSource, rnCached, rnNow)
                    ELSE <<>>
             new == DirectEntries(rnAdapter, rnSource, evs, rnNow)
         IN  /\ rnEvents' = evs
             /\ rnListed' = up
             /\ IF ~up /\ rnAdapter \in ApiAdapters
                THEN rnPc' = "raised" /\ UNCHANGED <<rnCached, rnLive>>
                ELSE IF ~up /\ rnAdapter = "tvpass"
                THEN rnPc' = "returned" /\ UNCHANGED <<rnCached, rnLive>>
                ELSE IF rnAdapter \in DirectAdapters
                THEN /\ rnCached' = Update(rnCached, new)
                     /\ rnLive' = Update(rnLive, new)
                     /\ rnPc' = "write"
                ELSE /\ rnPc' = (IF evs = <<>> THEN "write"
                                 ELSE IF rnAdapter \in BrowserAdapters THEN "browser"
                                 ELSE "loop")
                     /\ UNCHANGED <<rnCached, rnLive>>
    /\ UNCHANGED <<runFrame, rnAdapter, rnSource, rnNow, rnDisk, rnFile, rnIdx,
                   rnAttempt, rnRepeat, rnPrevComplete, rnBase, rnFlight>>

\* ppv.py:110-111  the browser is launched, or that fails
RunBrowser ==
    /\ rnPc = "browser"
    /\ \E ok \in BOOLEAN : rnPc' = (IF ok THEN "loop" ELSE "raised")
    /\ UNCHANGED <<runFrame, rnAdapter, rnSource, rnNow, rnDisk, rnFile, rnCached,
                   rnLive, rnEvents, rnIdx, rnAttempt, rnRepeat, rnListed, rnPrevComplete, rnBase, rnFlight>>

RunSafeProcessEager ==
    /\ rnPc = "loop"
    /\ rnIdx + Cardinality(rnFlight) < Len(rnEvents)
    /\ rnFlight' = rnFlight \cup {rnIdx + Cardinality(rnFlight) + 1}
    /\ UNCHANGED <<runFrame, rnAdapter, rnSource, rnPc, rnNow, rnDisk, rnFile, rnCached,
                   rnLive, rnEvents, rnIdx, rnAttempt, rnRepeat, rnListed,
                   rnPrevComplete, rnBase>>

\* ppv.py:113-126  for i, ev in enumerate(events, start=1): ... url = await
\* network.safe_process(handler, ...): the call for the next event is made
\* when the loop comes to it, the one before having returned
RunSafeProcess ==
    /\ rnPc = "loop"
    /\ rnFlight = {}
    /\ rnIdx < Len(rnEvents)
    /\ rnFlight' = {rnIdx + 1}
    /\ UNCHANGED <<runFrame, rnAdapter, rnSource, rnPc, rnNow, rnDisk, rnFile, rnCached,
                   rnLive, rnEvents, rnIdx, rnAttempt, rnRepeat, rnListed,
                   rnPrevComplete, rnBase>>

\* The call returns, ppv.py:126-147: the resolution of the event
\* gives a URL ("u") or None ("none"); in fstv it may also give ("", "")
\* ("empty", fstv.py:31-34), and None cannot be unpacked (fstv.py:148).
\* The entry is stored `if url`; watchfooty stores it in cached_urls anyway.
RunResolve ==
    /\ rnPc = "loop"
    /\ rnIdx < Len(rnEvents)
    /\ rnIdx + 1 \in rnFlight
    /\ rnFlight' = rnFlight \ {rnIdx + 1}
    /\ \E r \in {"u", "none", "empty"} :
         LET i == rnEvents[rnIdx + 1]
             k == rnSource[i].key
             e == Entry(rnAdapter, rnSource, i, IF r = "u" THEN "u" ELSE "", rnNow)
         IN  /\ r = "empty" => rnAdapter = "fstv"
             /\ rnIdx' = rnIdx + 1
             /\ rnAttempt' = [rnAttempt EXCEPT ![k] = rnNow]
             /\ rnRepeat' = (IF /\ rnAttempt[k] >= 0
                                /\ rnAttempt[k] < rnNow
                                /\ rnNow - rnAttempt[k] < Exp
                             THEN rnRepeat \cup {k} ELSE rnRepeat)
             /\ rnCached' = (IF r = "u" \/ rnAdapter \in TombstoneAdapters
                             THEN Update(rnCached, [x \in {k} |-> e])
                             ELSE rnCached)
             /\ rnLive' = (IF r = "u" THEN Update(rnLive, [x \in {k} |-> e])
                           ELSE rnLive)
             /\ rnPc' = (IF r = "none" /\ rnAdapter \in UnpackAdapters THEN "raised"
                         ELSE IF rnIdx + 1 < Len(rnEvents) THEN "loop"
                         ELSE "write")
    /\ UNCHANGED <<runFrame, rnAdapter, rnSource, rnNow, rnDisk, rnFile, rnEvents,
                   rnListed, rnPrevComplete, rnBase>>

RunWriteRestamps ==
    /\ rnPc = "write"
    /\ rnFile' = CacheWrite(rnFile, [k \in DOMAIN rnCached |->
                                        [rnCached[k] EXCEPT !.ts = rnNow]])
    /\ rnDisk' = "ok"
    /\ rnPc' = "done"
    /\ UNCHANGED <<runFrame, rnAdapter, rnSource, rnNow, rnCached, rnLive, rnEvents,
                   rnIdx, rnAttempt, rnRepeat, rnListed, rnPrevComplete, rnBase, rnFlight>>

\* ppv.py:149-158  the browser is closed; CACHE_FILE.write(cached_urls)
RunWrite ==
    /\ rnPc = "write"
    /\ rnFile' = CacheWrite(rnFile, rnCached)
    /\ rnDisk' = "ok"
    /\ rnPc' = "done"
    /\ UNCHANGED <<runFrame, rnAdapter, rnSource, rnNow, rnCached, rnLive, rnEvents,
                   rnIdx, rnAttempt, rnRepeat, rnListed, rnPrevComplete, rnBase, rnFlight>>

\* The process has ended; the next run starts at a later instant
RunAgain(t) ==
    /\ rnPc \in {"done", "returned", "raised"}
    /\ t > rnNow
    /\ rnNow' = t
    /\ rnPrevComplete' = (rnPc = "done" /\ rnListed)
    /\ rnListed' = FALSE
    /\ rnFlight' = {}
    /\ rnBase' = "unknown"
    /\ rnPc' = "load"
    /\ rnCached' = <<>>
    /\ rnLive' = <<>>
    /\ rnEvents' = <<>>
    /\ rnIdx' = 0
    /\ UNCHANGED <<runFrame, rnAdapter, rnSource, rnDisk, rnFile, rnAttempt, rnRepeat>>

NextRuns ==
    \/ RunLoad
    \/ RunGetBase
    \/ RunGetEvents
    \/ RunBrowser
    \/ RunSafeProcess
    \/ RunResolve
    \/ RunWrite
    \/ \E t \in Instants : RunAgain(t)

SpecRuns == InitRuns /\ [][NextRuns]_vars

(***************************************************************************)
(* The numbering of the channels: load_base and the loop of main,          *)
(* fetch.py:30-102.  A channel block is followed by its number and its     *)
(* key; a key is a name, and the order of the names is the order sorted()  *)
(* gives the keys.                                                         *)
(***************************************************************************)
Names == 1..MaxNames

\* The base lists: the numbers of the tvg-chno attributes of base.m3u8
BaseLists == UNION {[1..n -> 0..MaxChno] : n \in 0..MaxBase}

LastChnlNumLast(base) == IF base = <<>> THEN 0 ELSE base[Len(base)]

\* fetch.py:37  max(map(int, pattern.findall(data)), default=0)
LastChnlNum(base) ==
    IF base = <<>> THEN 0
    ELSE CHOOSE m \in {base[i] : i \in 1..Len(base)} :
            \A i \in 1..Len(base) : base[i] <= m

\* fetch.py:79  sorted(additions.items()): the keys in ascending order
Sorted(S) ==
    CHOOSE s \in [1..Cardinality(S) -> S] :
        \A i, j \in 1..Cardinality(S) : i < j => s[i] < s[j]

\* State when main starts, base.m3u8 holding the numbers of base
AggStart(base) ==
    /\ agPc = "load_base"
    /\ agBase = base
    /\ agChno = 0
    /\ agAdditions = {}
    /\ agLive = <<>>
    /\ agCombined = <<>>

InitAgg ==
    /\ \E base \in BaseLists : AggStart(base)
    /\ MirrorIdle
    /\ StoreIdle
    /\ RunIdle
    /\ MergeIdle
    /\ ApiIdle
    /\ BatchIdle
    /\ TagIdle
    /\ LookupIdle
    /\ ResolverStart("op", FALSE)
    /\ MainStart({})

\* fetch.py:43  base_m3u8, tvg_chno = load_base()
AggLoadBase ==
    /\ agPc = "load_base"
    /\ agChno' = LastChnlNum(agBase)
    /\ agPc' = "gather"
    /\ UNCHANGED <<aggFrame, agBase, agAdditions, agLive, agCombined>>

\* fetch.py:59-73  the scrapes end and their maps are merged
AggMerge(adds) ==
    /\ agPc = "gather"
    /\ agAdditions' = adds
    /\ agPc' = "loop"
    /\ UNCHANGED <<aggFrame, agBase, agChno, agLive, agCombined>>

\* fetch.py:79-102  one turn of the loop: enumerate(..., start=1) gives i,
\* the combined block is numbered tvg_chno + i and the live one i
AggEmit ==
    /\ agPc = "loop"
    /\ Len(agLive) < Cardinality(agAdditions)
    /\ LET i == Len(agLive) + 1
           event == Sorted(agAdditions)[i]
       IN  /\ agCombined' = Append(agCombined, [chno |-> agChno + i, event |-> event])
           /\ agLive' = Append(agLive, [chno |-> i, event |-> event])
    /\ UNCHANGED <<aggFrame, agPc, agBase, agChno, agAdditions>>

\* fetch.py:104-107  COMBINED_FILE.write_text(...)
AggWriteCombined ==
    /\ agPc = "loop"
    /\ Len(agLive) = Cardinality(agAdditions)
    /\ agPc' = "write_events"
    /\ UNCHANGED <<aggFrame, agBase, agChno, agAdditions, agLive, agCombined>>

\* fetch.py:111-115  EVENTS_FILE.write_text(...)
AggWriteEvents ==
    /\ agPc = "write_events"
    /\ agPc' = "written"
    /\ UNCHANGED <<aggFrame, agBase, agChno, agAdditions, agLive, agCombined>>

NextAgg ==
    \/ AggLoadBase
    \/ \E adds \in SUBSET Names : AggMerge(adds)
    \/ AggEmit
    \/ AggWriteCombined
    \/ AggWriteEvents

SpecAgg == InitAgg /\ [][NextAgg]_vars

(***************************************************************************)
(* The merge of the adapters' maps: fetch.py:45-102, with the first        *)
(* NumRunning tasks of main.  Each task ends with some map in its urls;    *)
(* the tasks end in any order.  The entry an adapter holds under a key is  *)
(* identified by the adapter.                                              *)
(***************************************************************************)
MergeTasks == {TaskOrder[i] : i \in 1..NumRunning}

\* fetch.py:61-73  the operands of the union, from left to right
MergeOrder == SelectSeq(TaskOrder, LAMBDA a : a \in MergeTasks)

\* d1 | d2 of two dicts: the entries of d2, and those of d1 under other keys
DictOr(d1, d2) ==
    [k \in DOMAIN d1 \cup DOMAIN d2 |-> IF k \in DOMAIN d2 THEN d2[k] ELSE d1[k]]

\* The map urls of adapter a when it holds the keys ks
UrlsOf(a, ks) == [k \in ks |-> a]

RECURSIVE OrAll(_, _)
\* fetch.py:61-73  a.urls | b.urls | ... for the adapters of order
OrAll(maps, order) ==
    IF order = <<>> THEN <<>>
    ELSE DictOr(OrAll(maps, SubSeq(order, 1, Len(order) - 1)),
                UrlsOf(order[Len(order)], maps[order[Len(order)]]))

MergeListByCompletion(done) == done

\* fetch.py:61-73  the operands are named in the code, whatever the order
\* the tasks ended in
MergeList(done) == MergeOrder

MergeStart ==
    /\ mgPc = "gather"
    /\ mgMaps = [a \in MergeTasks |-> {}]
    /\ mgDone = <<>>
    /\ mgAdditions = <<>>
    /\ mgOut = <<>>

InitMerge ==
    /\ MergeStart
    /\ MirrorIdle
    /\ StoreIdle
    /\ RunIdle
    /\ AggIdle
    /\ ApiIdle
    /\ BatchIdle
    /\ TagIdle
    /\ LookupIdle
    /\ ResolverStart("op", FALSE)
    /\ MainStart({})

\* fetch.py:45-59  the task of adapter a ends, its urls holding the keys ks
MergeTaskEnds(a, ks) ==
    /\ mgPc = "gather"
    /\ \A i \in 1..Len(mgDone) : mgDone[i] # a
    /\ mgMaps' = [mgMaps EXCEPT ![a] = ks]
    /\ mgDone' = Append(mgDone, a)
    /\ UNCHANGED <<mergeFrame, mgPc, mgAdditions, mgOut>>

\* fetch.py:59-73  gather returns once every task has ended; additions = ...
MergeAdditions ==
    /\ mgPc = "gather"
    /\ Len(mgDone) = Cardinality(MergeTasks)
    /\ mgAdditions' = OrAll(mgMaps, MergeList(mgDone))
    /\ mgPc' = "loop"
    /\ UNCHANGED <<mergeFrame, mgMaps, mgDone, mgOut>>

\* fetch.py:79-102  one turn of the loop over sorted(additions.items())
MergeEmit ==
    /\ mgPc = "loop"
    /\ Len(mgOut) < Cardinality(DOMAIN mgAdditions)
    /\ LET event == Sorted(DOMAIN mgAdditions)[Len(mgOut) + 1]
       IN  mgOut' = Append(mgOut, [event |-> event, info |-> mgAdditions[event]])
    /\ UNCHANGED <<mergeFrame, mgPc, mgMaps, mgDone, mgAdditions>>

\* fetch.py:104-115  both files are written
MergeWrite ==
    /\ mgPc = "loop"
    /\ Len(mgOut) = Cardinality(DOMAIN mgAdditions)
    /\ mgPc' = "written"
    /\ UNCHANGED <<mergeFrame, mgMaps, mgDone, mgAdditions, mgOut>>

NextMerge ==
    \/ \E a \in MergeTasks : \E ks \in SUBSET Names : MergeTaskEnds(a, ks)
    \/ MergeAdditions
    \/ MergeEmit
    \/ MergeWrite

SpecMerge == InitMerge /\ [][NextMerge]_vars

(***************************************************************************)
(* The upstream-response cache of the adapters that index an API:          *)
(* refresh_api_cache and the head of get_events (lotus.py:24-59,           *)
(* pixel.py:19-53, ppv.py:21-50, strmfree.py:20-53, watchfooty.py:51-158), *)
(* over successive runs.  A blob is abstracted to its timestamp member     *)
(* (-1: it has none) and to whether it holds a payload (an empty dict      *)
(* holds none and is falsy).                                               *)
(***************************************************************************)
ApiExp == 28800

\* The instants the clock takes: the start, and around one TTL later
ApiInstants == {0, 1, ApiExp - 1, ApiExp, ApiExp + 1}

\* {}: what refresh_api_cache returns when the request fails, and what
\* load() returns when it has nothing to return
NoBlob == [ts |-> -1, ok |-> FALSE]

\* refresh_api_cache sets the timestamp member of the payload itself
ApiStampAdapters == {"lotus", "pixel", "strmfree", "watchfooty"}

\* The timestamp member of what refresh_api_cache returns at instant now: the
\* time of the run where the adapter sets it; where it does not (ppv.py:34,
\* return r.json()), whatever the upstream sent: no such member, or any time
\* not after now
PayloadStamps(a, now) ==
    IF a \in ApiStampAdapters THEN {now}
    ELSE {-1} \cup {t \in ApiInstants : t <= now}

\* load(per_entry=False): the blob when its age, now - timestamp, is under
\* the TTL, else nothing; a missing snapshot gives nothing.  What is returned
\* for a blob without timestamp is not settled: either
BlobLoads(disk, blob, now, exp) ==
    IF disk # "ok" \/ ~blob.ok THEN {NoBlob}
    ELSE IF blob.ts = -1 THEN {NoBlob, blob}
    ELSE IF now - blob.ts < exp THEN {blob}
    ELSE {NoBlob}

ApiStart ==
    /\ apAdapter \in ApiAdapters
    /\ apPc = "idle"
    /\ apNow = 0
    /\ apDisk = "missing"
    /\ apBlob = NoBlob
    /\ apLoaded = NoBlob
    /\ apData = NoBlob
    /\ apRequests = 0
    /\ apLastFetch = -1
    /\ apRefetch = FALSE

InitApi ==
    /\ ApiStart
    /\ MirrorIdle
    /\ StoreIdle
    /\ RunIdle
    /\ AggIdle
    /\ MergeIdle
    /\ BatchIdle
    /\ TagIdle
    /\ LookupIdle
    /\ ResolverStart("op", FALSE)
    /\ MainStart({})

\* ppv.py:41  api_data := API_FILE.load(per_entry=False)
ApiLoad ==
    /\ apPc = "idle"
    /\ \E b \in BlobLoads(apDisk, apBlob, apNow, ApiExp) :
         /\ apLoaded' = b
         /\ apData' = b
    /\ apRequests' = 0
    /\ apPc' = "loaded"
    /\ UNCHANGED <<apiFrame, apAdapter, apNow, apDisk, apBlob, apLastFetch, apRefetch>>

\* ppv.py:41  the loaded blob is truthy: no request is made
ApiSkip ==
    /\ apPc = "loaded"
    /\ apData.ok
    /\ apPc' = "discover"
    /\ UNCHANGED <<apiFrame, apAdapter, apNow, apDisk, apBlob, apLoaded, apData,
                   apRequests, apLastFetch, apRefetch>>

\* ppv.py:21-34, 42-48  refresh_api_cache: the request is made; it fails and
\* {} is returned, or its payload is
ApiRefresh(got) ==
    /\ apPc = "loaded"
    /\ ~apData.ok
    /\ apRequests' = apRequests + 1
    /\ apRefetch' = (apRefetch \/ (apLastFetch # -1 /\ apNow - apLastFetch < ApiExp))
    /\ IF got
       THEN /\ \E ts \in PayloadStamps(apAdapter, apNow) :
                 apData' = [ts |-> ts, ok |-> TRUE]
            /\ apLastFetch' = apNow
            /\ apPc' = "fetched"
       ELSE /\ apData' = NoBlob
            /\ UNCHANGED apLastFetch
            \* watchfooty.py:66-72: data[-1] of the empty list raises
            /\ apPc' = (IF apAdapter = "watchfooty" THEN "raised" ELSE "fetched")
    /\ UNCHANGED <<apiFrame, apAdapter, apNow, apDisk, apBlob, apLoaded>>

\* ppv.py:50  API_FILE.write(api_data)
ApiWrite ==
    /\ apPc = "fetched"
    /\ apDisk' = "ok"
    /\ apBlob' = CacheWrite(apBlob, apData)
    /\ apPc' = "discover"
    /\ UNCHANGED <<apiFrame, apAdapter, apNow, apLoaded, apData, apRequests,
                   apLastFetch, apRefetch>>

\* ppv.py:58  for stream_group in api_data["streams"]: the events are read
\* from api_data; the empty dict has no such member and the lookup raises
ApiDiscover ==
    /\ apPc = "discover"
    /\ apPc' = (IF apData.ok THEN "done" ELSE "raised")
    /\ UNCHANGED <<apiFrame, apAdapter, apNow, apDisk, apBlob, apLoaded, apData,
                   apRequests, apLastFetch, apRefetch>>

\* the next run of the adapter, at a later instant t
ApiAgain(t) ==
    /\ apPc \in {"done", "raised"}
    /\ t > apNow
    /\ apNow' = t
    /\ apPc' = "idle"
    /\ apRequests' = 0
    /\ apLoaded' = NoBlob
    /\ apData' = NoBlob
    /\ UNCHANGED <<apiFrame, apAdapter, apDisk, apBlob, apLastFetch, apRefetch>>

NextApi ==
    \/ ApiLoad
    \/ ApiSkip
    \/ \E got \in BOOLEAN : ApiRefresh(got)
    \/ ApiWrite
    \/ ApiDiscover
    \/ \E t \in ApiInstants : ApiAgain(t)

SpecApi == InitApi /\ [][NextApi]_vars

(***************************************************************************)
(* The loop of scrape over a batch of events in one browser context        *)
(* (strmfree.py:109-150, ppv.py:110-151, watchfooty.py:227-270): each turn *)
(* calls safe_process around process_event, and the next turn starts when  *)
(* the call has returned.  The steps of each call are those of the         *)
(* resolver above.                                                         *)
(***************************************************************************)
BatchStart(v) ==
    /\ btIdx = 1
    /\ btPrev = "none"
    /\ ResolverStart(v, FALSE)

InitBatch ==
    /\ \E v \in {"net", "wfty"} : BatchStart(v)
    /\ MirrorIdle
    /\ StoreIdle
    /\ RunIdle
    /\ AggIdle
    /\ MergeIdle
    /\ ApiIdle
    /\ TagIdle
    /\ LookupIdle
    /\ MainStart({})

\* strmfree.py:113-127  safe_process has returned: the loop goes to the next
\* event and calls safe_process for it.  The page of the event before is
\* left as the call left it.
BatchNext ==
    /\ btIdx >= 1 /\ btIdx < MaxEvents
    /\ spPc = "returned"
    /\ btIdx' = btIdx + 1
    /\ btPrev' = page
    /\ spPc' = "create"
    /\ spResult' = None
    /\ spRaised' = FALSE
    /\ spTimedOut' = FALSE
    /\ taskState' = "none"
    /\ taskResult' = None
    /\ mustCancel' = FALSE
    /\ cancelCount' = 0
    /\ pePc' = "idle"
    /\ pePending' = "return"
    /\ peRet' = None
    /\ page' = "none"
    /\ pageListener' = FALSE
    /\ popup' = "none"
    /\ popupListener' = FALSE
    /\ captured' = <<>>
    /\ gotOne' = FALSE
    /\ closeCalls' = 0
    /\ removeCalls' = 0
    /\ waitTask' = "none"
    /\ waitEnded' = "no"
    /\ UNCHANGED <<batchFrame, variant, opHangs>>

\* The browser completes a close that page.close() asked for and that the
\* task did not wait for
BatchPrevCloses ==
    /\ btPrev = "closing"
    /\ btPrev' = "closed"
    /\ UNCHANGED <<batchFrame, resolverVars, btIdx>>

NextBatch ==
    \/ SafeProcessCreateTask
    \/ SafeProcessTaskDone
    \/ SafeProcessDeadline
    \/ SafeProcessCancelled
    \/ SafeProcessCancel
    \/ SafeProcessAwaitTask
    \/ \E u \in ReqUrls : Request(u)
    \/ NetNewPage
    \/ NetGoto
    \/ NetWaitMatch
    \/ NetWaitTimeout
    \/ NetClose
    \/ NetCancelled
    \/ WftyNewPage
    \/ WftyGoto
    \/ WftySelector
    \/ WftyWaitMatch
    \/ WftyWaitTimeout
    \/ WftyClose
    \/ WftyCancelled
    \/ BatchNext
    \/ BatchPrevCloses

SpecBatch == InitBatch /\ [][NextBatch]_vars

(***************************************************************************)
(* The keys of the adapters.  Every adapter writes its entries under keys  *)
(* of the form "[sport] event (TAG)"; a key is kept as the text before the *)
(* tag, a name, and the tag it ends with.  main makes the union of the     *)
(* maps and emits one block per entry of the union to each of the two      *)
(* outputs.                                                                *)
(***************************************************************************)
Tags == <<"FSTV", "LOTUS", "PIXL", "PPV", "ROXIE", "SBTW", "SEAST", "STRMFR", "TVP", "WFTY">>

\* Mutant of TagOf: lotus writes its keys with the tag of fstv.
TagOfShared(a) ==
    CASE a = "fstv" -> "FSTV"
      [] a = "lotus" -> "FSTV"
      [] a = "pixel" -> "PIXL"
      [] a = "ppv" -> "PPV"
      [] a = "roxie" -> "ROXIE"
      [] a = "streambtw" -> "SBTW"
      [] a = "streameast" -> "SEAST"
      [] a = "strmfree" -> "STRMFR"
      [] a = "tvpass" -> "TVP"
      [] a = "watchfooty" -> "WFTY"

\* The tag each adapter ends its keys with
TagOf(a) ==
    CASE a = "fstv" -> "FSTV"
      [] a = "lotus" -> "LOTUS"
      [] a = "pixel" -> "PIXL"
      [] a = "ppv" -> "PPV"
      [] a = "roxie" -> "ROXIE"
      [] a = "streambtw" -> "SBTW"
      [] a = "streameast" -> "SEAST"
      [] a = "strmfree" -> "STRMFR"
      [] a = "tvpass" -> "TVP"
      [] a = "watchfooty" -> "WFTY"

\* The texts "[sport] event" one adapter is seen to build keys from
TagNames == 1..MaxListed

\* key = f"[{sport}] {event} (TAG)"
Key(a, n) == [name |-> n, tag |-> TagOf(a)]

TagRank(t) == CHOOSE i \in 1..Len(Tags) : Tags[i] = t

\* The order of the keys as strings: by the text before the tag, then by tag
KeyLess(k1, k2) ==
    \/ k1.name < k2.name
    \/ k1.name = k2.name /\ TagRank(k1.tag) < TagRank(k2.tag)

RECURSIVE SortedKeys(_)
\* fetch.py:79  sorted(additions.items()): the keys in ascending order
SortedKeys(S) ==
    IF S = {} THEN <<>>
    ELSE LET m == CHOOSE x \in S : \A y \in S : x = y \/ KeyLess(x, y)
         IN  <<m>> \o SortedKeys(S \ {m})

\* The adapters of src whose tasks one run follows
TagLineups == {T \in SUBSET SourceAdapters : Cardinality(T) = NumRunning}

\* fetch.py:61-73  the operands of the union, from left to right
TagOrder(T) == SelectSeq(TaskOrder, LAMBDA a : a \in T)

RECURSIVE SumSizes(_, _)
\* The sum of the sizes of the maps of the adapters of T
SumSizes(maps, T) ==
    IF T = {} THEN 0
    ELSE LET a == CHOOSE x \in T : TRUE
         IN  Cardinality(maps[a]) + SumSizes(maps, T \ {a})

\* State when main has created the tasks of the adapters of T
TagStart(T) ==
    /\ tgPc = "gather"
    /\ tgTasks = T
    /\ tgEnded = {}
    /\ tgMaps = [a \in T |-> {}]
    /\ tgAdditions = <<>>
    /\ tgLive = <<>>
    /\ tgCombined = <<>>

InitTagged ==
    /\ \E T \in TagLineups : TagStart(T)
    /\ MirrorIdle
    /\ StoreIdle
    /\ RunIdle
    /\ AggIdle
    /\ MergeIdle
    /\ ApiIdle
    /\ BatchIdle
    /\ LookupIdle
    /\ ResolverStart("op", FALSE)
    /\ MainStart({})

\* The scrape of adapter a ends, having written its entries, those loaded
\* from its cache and those of this run, under keys built from the names ns
TagTaskEnds(a, ns) ==
    /\ tgPc = "gather"
    /\ a \in tgTasks \ tgEnded
    /\ tgMaps' = [tgMaps EXCEPT ![a] = {Key(a, n) : n \in ns}]
    /\ tgEnded' = tgEnded \cup {a}
    /\ UNCHANGED <<tagFrame, tgPc, tgTasks, tgAdditions, tgLive, tgCombined>>

\* fetch.py:59-73  gather has returned: additions = a.urls | b.urls | ...
TagAdditions ==
    /\ tgPc = "gather"
    /\ tgEnded = tgTasks
    /\ tgAdditions' = OrAll(tgMaps, TagOrder(tgTasks))
    /\ tgPc' = "merged"
    /\ UNCHANGED <<tagFrame, tgTasks, tgEnded, tgMaps, tgLive, tgCombined>>

\* fetch.py:75-115  the loop over sorted(additions.items()) appends one block
\* to each of the two lists, and the two files are written
TagEmit ==
    /\ tgPc = "merged"
    /\ LET events == SortedKeys(DOMAIN tgAdditions)
           blocks == [i \in 1..Len(events) |->
                         [event |-> events[i], info |-> tgAdditions[events[i]]]]
       IN  /\ tgLive' = blocks
           /\ tgCombined' = blocks
    /\ tgPc' = "written"
    /\ UNCHANGED <<tagFrame, tgTasks, tgEnded, tgMaps, tgAdditions>>

NextTagged ==
    \/ \E a \in SourceAdapters : \E ns \in SUBSET TagNames : TagTaskEnds(a, ns)
    \/ TagAdditions
    \/ TagEmit

SpecTagged == InitTagged /\ [][NextTagged]_vars

(***************************************************************************)
(* The metadata lookup.  An event name is kept word by word, the words     *)
(* being separated by single spaces.  "vs" stands for "vs", "vs." in any   *)
(* case, and so "at"; "Chiefs", "Lakers" and "Aces" stand for a team of    *)
(* the lists of the NFL, the NBA and the WNBA in leagues.json, "Show" for  *)
(* any other word, and "RedZone" for a name is_valid accepts as it stands. *)
(***************************************************************************)
Words == {"Chiefs", "Lakers", "Aces", "Show", "RedZone", "vs", "-"}

Seps == {"vs", "at", "-"}

EventNames == UNION {[1..n -> Words] : n \in 1..MaxWords}

Sports == {"American Football", "NBA", "Basketball", "Hockey", "Soccer"}

\* config.py:103-104  teams(league), the names being single words
Teams(league) ==
    CASE league = "NFL" -> {<<"Chiefs">>}
      [] league = "NBA" -> {<<"Lakers">>}
      [] league = "WNBA" -> {<<"Aces">>}
      [] OTHER -> {}

RECURSIVE SepAt(_, _)
\* The pattern \s+(?:-|vs\.?|at)\s+ matches at word i: a separator word with
\* white space on both sides, the space before it not being the one the
\* match before has taken
SepAt(ev, i) ==
    /\ 1 < i
    /\ i < Len(ev)
    /\ ev[i] \in Seps
    /\ ~SepAt(ev, i - 1)

SepPlaces(ev) == {i \in 1..Len(ev) : SepAt(ev, i)}

RECURSIVE SplitFrom(_, _)
\* re.split(pattern, event): the parts between the matches, from word i on
SplitFrom(ev, i) ==
    LET rest == {j \in SepPlaces(ev) : j >= i}
    IN  IF rest = {} THEN <<SubSeq(ev, i, Len(ev))>>
        ELSE LET j == CHOOSE x \in rest : \A y \in rest : x <= y
             IN  <<SubSeq(ev, i, j - 1)>> \o SplitFrom(ev, j + 1)

ReSplit(ev) == SplitFrom(ev, 1)

\* config.py:125-138  is_valid: "True", "False", or "ValueError" when the
\* unpacking t1, t2 = re.split(...) does not get two parts
IsValid(ev, league) ==
    IF SepPlaces(ev) # {}
    THEN LET parts == ReSplit(ev)
         IN  IF Len(parts) # 2 THEN "ValueError"
             ELSE IF parts[1] \in Teams(league) \/ parts[2] \in Teams(league)
                  THEN "True" ELSE "False"
    ELSE IF ev = <<"RedZone">> THEN "True" ELSE "False"

\* config.py:106-123  info(name): the id of the league of that name, None
\* when leagues.json has none
Info(name) ==
    CASE name \in {"NFL", "NCAA", "NBA", "WNBA", "NHL"} -> name
      [] name = "Basketball" -> "BASKETBALL"
      [] OTHER -> "None"

\* config.py:140-170  get_tvg_info: what info returns, or "ValueError" when
\* is_valid raises
GetTvgInfo(sport, ev) ==
    CASE sport \in {"American Football", "NFL"} ->
            LET v == IsValid(ev, "NFL")
            IN  IF v = "ValueError" THEN v
                ELSE IF v = "True" THEN Info("NFL") ELSE Info("NCAA")
      [] sport \in {"Basketball", "NBA"} ->
            LET v == IsValid(ev, "NBA")
                w == IsValid(ev, "WNBA")
            IN  IF v = "ValueError" THEN v
                ELSE IF v = "True" THEN Info("NBA")
                ELSE IF w = "ValueError" THEN w
                ELSE IF w = "True" THEN Info("WNBA") ELSE Info("Basketball")
      [] sport \in {"Ice Hockey", "Hockey"} -> Info("NHL")
      [] OTHER -> Info(sport)

\* lotus.py:137-138  safe_process has returned a URL for the event
LookupStart(sport, ev) ==
    /\ lkPc = "resolved"
    /\ lkSport = sport
    /\ lkEvent = ev
    /\ lkInfo = "none"

InitLookup ==
    /\ \E sport \in Sports : \E ev \in EventNames : LookupStart(sport, ev)
    /\ MirrorIdle
    /\ StoreIdle
    /\ RunIdle
    /\ AggIdle
    /\ MergeIdle
    /\ ApiIdle
    /\ BatchIdle
    /\ TagIdle
    /\ ResolverStart("op", FALSE)
    /\ MainStart({})

\* lotus.py:140-152  get_tvg_info returns and the entry is stored
LookupStores ==
    /\ lkPc = "resolved"
    /\ GetTvgInfo(lkSport, lkEvent) # "ValueError"
    /\ lkInfo' = GetTvgInfo(lkSport, lkEvent)
    /\ lkPc' = "stored"
    /\ UNCHANGED <<lookupFrame, lkSport, lkEvent>>

\* lotus.py:140  get_tvg_info raises: the exception leaves the loop and
\* scrape, no entry being stored for the event
LookupRaises ==
    /\ lkPc = "resolved"
    /\ GetTvgInfo(lkSport, lkEvent) = "ValueError"
    /\ lkPc' = "raised"
    /\ UNCHANGED <<lookupFrame, lkSport, lkEvent, lkInfo>>

NextLookup ==
    \/ LookupStores
    \/ LookupRaises

SpecLookup == InitLookup /\ [][NextLookup]_vars

\* The snapshot as load() gives it to the run in progress: the file and the
\* clock do not change between RunLoad and RunWrite
RunLoaded == CacheLoad(rnDisk, rnFile, rnNow, Exp)

\* get_events has returned in this run and its events are in rnEvents
RunDiscovered == rnPc \in {"browser", "loop", "write"}

\* The keys of the events discovery returned in this run
RunEventKeys == {rnSource[rnEvents[j]].key : j \in 1..Len(rnEvents)}

\* The keys of the events this run has put through resolution so far
RunAttemptedKeys == {rnSource[rnEvents[j]].key : j \in 1..rnIdx}

\* The snapshot on disk is readable and all of its entries are within the TTL
RunWarm ==
    /\ rnDisk = "ok"
    /\ \A k \in DOMAIN rnFile : rnNow - rnFile[k].ts < Exp

(***************************************************************************)
(* The scheduling the event loop guarantees for one call: the timer of     *)
(* wait_for fires if the task stays pending, a task that is ready to run   *)
(* (here: one a cancellation was delivered to, and its clean-up) is run,   *)
(* and safe_process is resumed when what it awaits is done.                *)
(***************************************************************************)
FairResolver ==
    /\ SpecResolver
    /\ WF_vars(SafeProcessCreateTask)
    /\ WF_vars(SafeProcessDeadline)
    /\ WF_vars(OpCancelled)
    /\ WF_vars(OpCleanup)
    /\ WF_vars(SafeProcessCancelled)
    /\ WF_vars(SafeProcessCancel)
    /\ WF_vars(SafeProcessAwaitTask)

(***************************************************************************)
(* Claims about the bounded resolver and the capture bridge.               *)
(***************************************************************************)

\* C1: in every state in which safe_process has returned, the task it created
\* is done; on the timeout path (the deadline passed with the task pending)
\* the task was cancelled exactly once, has ended, and the value is None.
C1_TimeoutCancelsAndWaits ==
    spPc = "returned" =>
        /\ TaskDone
        /\ spTimedOut => (spResult = None /\ cancelCount = 1 /\ ~mustCancel)

C1_Witness ==
    /\ spPc = "returned" /\ spTimedOut
    /\ variant = "net" /\ taskState = "cancelled" /\ page = "closed"

\* C5: when the operation finished before the deadline, safe_process returns
\* exactly the operation's result.
C5_SuccessReturnsResult ==
    (spPc = "returned" /\ taskState = "finished" /\ ~spTimedOut) =>
        spResult = taskResult

C5_Witness ==
    /\ spPc = "returned" /\ taskState = "finished" /\ ~spTimedOut
    /\ spResult # None

\* C6: no exception of the operation escapes safe_process: it never ends by
\* raising, a call that has not returned can always take a step, and when the
\* operation raised the value returned is None.
C6_NeverPropagates ==
    /\ ~spRaised
    /\ spPc # "raised"
    /\ spPc # "returned" => ENABLED NextResolver
    /\ (spPc = "returned" /\ taskState \in {"raised", "raised_timeout"}) =>
           spResult = None

C6_Witness ==
    /\ spPc = "returned" /\ ~spTimedOut
    /\ taskState = "raised" /\ spResult = None

\* C7: with an operation that never completes on its own, a call that waits
\* eventually returns None with the operation's task cancelled and ended.
C7_HangingOperationReturns ==
    (opHangs /\ spPc = "wait_for") ~>
        (spPc = "returned" /\ spResult = None /\ TaskDone /\ cancelCount = 1
         /\ pePc = "done")

C7_Witness ==
    /\ opHangs /\ spPc = "returned" /\ spResult = None
    /\ taskState = "cancelled" /\ pePc = "done"

C9_LtvCleansUp ==
    (variant = "ltv" /\ TaskDone /\ page # "none") =>
        /\ page \in {"closing", "closed"}
        /\ ~pageListener
        /\ popup # "open"
        /\ ~popupListener

\* C10: once the wait for the flag has begun, process_event returns only
\* after a match or the inner timeout; after the timeout it returns None and
\* nothing was captured; after a match it returns a captured URL, the first
\* one in Network.process_event and the last one in watchfooty's.
C10_BridgeResult ==
    variant \in {"net", "wfty"} =>
        /\ (waitTask # "none" /\ taskState = "finished") =>
               waitEnded \in {"match", "timeout"}
        /\ waitEnded = "timeout" =>
               (captured = <<>> /\ peRet = None
                /\ (taskState = "finished" => taskResult = None))
        /\ waitEnded = "match" =>
               /\ captured # <<>>
               /\ peRet = (IF variant = "net" THEN captured[1]
                                              ELSE captured[Len(captured)])
               /\ taskState = "finished" => taskResult = peRet

C10_Witness ==
    /\ variant = "net" /\ taskState = "finished" /\ waitEnded = "match"
    /\ Len(captured) = 2 /\ captured[1] # captured[2]
    /\ taskResult = captured[1] /\ spResult = captured[1]

\* C2: the raising of one adapter's scrape task aborts neither main nor the
\* other adapter tasks: the join in main never ends by an exception and no
\* adapter task is cancelled, so main goes on to the merge and the two writes.
C2_JoinDoesNotFailFast ==
    /\ mainPc # "failed"
    /\ \A a \in lineup : adPc[a] # "cancelled"

\* C3: an adapter whose upstream is unreachable (the refresh of its API data
\* failed) or that found no mirror alive does not raise: scrape returns.
C3_InternalFailureDegrades ==
    \A a \in lineup :
        adSource[a] \in {"down", "no_mirror"} => adPc[a] # "raised"

\* C4: when the loop of an adapter has ended, by scrape going on past it or by
\* an exception, and safe_process returned None for some event of the batch,
\* every event of the batch was attempted.
C4_SiblingEventsAttempted ==
    \A a \in lineup :
        (/\ adPc[a] \in {"close_browser", "done", "raised"}
         /\ \E i \in 1..Len(adResults[a]) : adResults[a][i] = "none")
        => Len(adResults[a]) = adN[a]


(***************************************************************************)
(* Claims about the mirror selector.                                       *)
(***************************************************************************)

\* C11: get_base returns the first candidate in input order whose probe
\* succeeded, whatever the order in which the probes completed, and None
\* when no probe succeeded.
C11_FirstHealthyByInputOrder ==
    gbPc = "returned" =>
        gbRet = FirstOf({i \in 1..Len(mirrors) : mirrors[i] = "ok"})

\* C12: get_base never returns a mirror whose probe did not return success:
\* a probe that met a non-success status, a timeout or a transport error,
\* or that raised so that the join handed back the exception object.
C12_NeverSelectsUnhealthy ==
    (gbPc = "returned" /\ gbRet # 0) => mirrors[gbRet] = "ok"


(***************************************************************************)
(* Claims about the cache store.                                           *)
(***************************************************************************)

\* C13: what load() returns holds no entry whose age, now - timestamp, is at
\* or over the TTL, and holds every entry of the snapshot whose age is under
\* the TTL.
C13_LoadReturnsFreshOnly ==
    stPc = "loaded" =>
        /\ \A k \in DOMAIN stLoaded : stNow - stLoaded[k].ts < Exp
        /\ \A k \in DOMAIN stFile :
               stNow - stFile[k].ts < Exp =>
                   (k \in DOMAIN stLoaded /\ stLoaded[k] = stFile[k])

C13_Witness ==
    /\ stPc = "loaded" /\ stDisk = "ok"
    /\ DOMAIN stFile = {1, 2}
    /\ stFile[1].ts = 1 /\ stFile[2].ts = 0 /\ stNow = Exp
    /\ DOMAIN stLoaded = {1}

\* C14: load() on a missing or corrupt snapshot returns the empty map and
\* does not raise.
C14_LoadFailsOpen ==
    (stPc = "loaded" /\ stDisk \in {"missing", "corrupt"}) =>
        (stLoaded = <<>> /\ ~stRaised)

C14_Witness ==
    /\ stPc = "loaded" /\ stDisk = "corrupt"
    /\ stWritten # <<>> /\ stLoaded = <<>>

C16_DiscoveryExcludesCachedKeys ==
    RunDiscovered => RunEventKeys \cap DOMAIN RunLoaded = {}

(***************************************************************************)
(* C17.  Idempotence of discovery: in a run that follows a run which wrote *)
(* the cache, the source unchanged and every entry of that cache within    *)
(* the TTL, discovery returns no event and the cache gets no new entry.    *)
(***************************************************************************)
C17_SecondRunFindsNothing ==
    (rnPrevComplete /\ RunWarm /\ RunDiscovered) =>
        /\ rnEvents = <<>>
        /\ rnCached = RunLoaded

(***************************************************************************)
(* C18.  Across the runs of an adapter no key is resolved twice inside its *)
(* TTL window: once resolution was attempted for a key, no later run       *)
(* within the TTL of that attempt invokes resolution for that key.         *)
(***************************************************************************)
C18_NoRepeatWithinTtl == rnRepeat = {}

C20_Numbering ==
    agPc \in {"write_events", "written"} =>
        LET N == Cardinality(agAdditions)
            nums == {agBase[j] : j \in 1..Len(agBase)}
            baseMax == IF nums = {} THEN 0
                       ELSE CHOOSE m \in nums : \A x \in nums : x <= m
        IN  /\ Len(agLive) = N
            /\ Len(agCombined) = N
            /\ \A i \in 1..N : agLive[i].chno = i
            /\ \A i \in 1..N : agCombined[i].chno = baseMax + i
            /\ {agLive[i].chno : i \in 1..N} = 1..N
            /\ {agCombined[i].chno : i \in 1..N} = (baseMax + 1)..(baseMax + N)
            /\ {agLive[i].event : i \in 1..N} = agAdditions

\* Both files are written, from several live entries and a base list whose
\* largest number is not its last
C20_Witness ==
    /\ agPc = "written"
    /\ Cardinality(agAdditions) >= 2
    /\ Len(agBase) >= 2
    /\ agBase[1] > agBase[Len(agBase)]
    /\ agCombined[1].chno = agBase[1] + 1

(***************************************************************************)
(* C21.  Aggregator determinism: the channels are emitted in ascending     *)
(* order of key, one for each key some adapter's map holds, and the entry  *)
(* emitted for a key is that of the last adapter, in the order main names  *)
(* them, whose map holds the key: a function of the maps alone, whatever   *)
(* the order the tasks ended in.                                           *)
(***************************************************************************)
C21_MergeDeterministic ==
    mgPc = "written" =>
        /\ \A i, j \in 1..Len(mgOut) : i < j => mgOut[i].event < mgOut[j].event
        /\ {mgOut[i].event : i \in 1..Len(mgOut)} = UNION {mgMaps[a] : a \in MergeTasks}
        /\ \A i \in 1..Len(mgOut) :
             LET holders == {p \in 1..Len(MergeOrder) :
                                mgOut[i].event \in mgMaps[MergeOrder[p]]}
                 last == CHOOSE p \in holders : \A q \in holders : q <= p
             IN  mgOut[i].info = MergeOrder[last]

\* The files are written, the tasks having ended in another order than main
\* created them, two maps holding one same key, several channels emitted
C21_Witness ==
    /\ mgPc = "written"
    /\ mgDone # MergeOrder
    /\ Len(mgOut) >= 2
    /\ \E a, b \in MergeTasks : a # b /\ mgMaps[a] \cap mgMaps[b] # {}

(***************************************************************************)
(* C22.  The run persists what was accumulated and produces output under   *)
(* partial failure: when the scrape of an adapter has failed, the entries  *)
(* it resolved in this run are written to its cache all the same, and main *)
(* does not end without writing the two playlist files.                    *)
(***************************************************************************)
C22_PartialFailurePersists ==
    /\ \A a \in lineup :
         (adPc[a] \in {"raised", "cancelled"} /\ Live(a) # {}) => adSaved[a]
    /\ mainPc # "failed"

(***************************************************************************)
(* C23.  Within one adapter the resolutions run one after the other in the *)
(* order of discovery: at most one call of the bounded resolver is in      *)
(* flight, and it is the call for the event that follows those which have  *)
(* returned.                                                               *)
(***************************************************************************)
C23_SequentialResolution ==
    /\ Cardinality(rnFlight) <= 1
    /\ rnFlight \subseteq {rnIdx + 1}

\* The resolver has returned for the first event of a batch and the call
\* for the second is in flight
C23_Witness ==
    /\ rnPc = "loop"
    /\ rnIdx = 1
    /\ rnFlight = {2}

(***************************************************************************)
(* C24.  Across adapters execution is concurrent: while one adapter is     *)
(* suspended in a resolution, every other adapter task that has not ended  *)
(* can take its next step; no adapter waits for the resolution of another. *)
(***************************************************************************)
C24_AdaptersConcurrent ==
    \A a, b \in lineup :
        (a # b /\ Resolving(a) /\ adPc[b] \notin Terminal) => ENABLED AdStep(b)

\* An adapter has gone through a whole batch and written its cache while
\* another is still suspended in the resolution of its first event
C24_Witness ==
    \E a, b \in lineup :
        /\ a # b
        /\ Resolving(a)
        /\ adResults[a] = <<>>
        /\ adPc[b] = "done"
        /\ adN[b] > 0
        /\ Len(adResults[b]) = adN[b]
        /\ b \notin DirectAdapters
        /\ adSaved[b]

(***************************************************************************)
(* C25.  No cross-adapter shared mutable state: under any interleaving of  *)
(* the adapter tasks, a step that changes the output map of an adapter or  *)
(* writes its cache is a step of the scrape of that adapter, and it        *)
(* changes the map and the cache of no other adapter.                      *)
(***************************************************************************)
C25_OwnMapsOnly ==
    [][\A b \in Adapters :
          (adResults'[b] # adResults[b] \/ adSaved'[b] # adSaved[b]) =>
              /\ AdStep(b)
              /\ \A c \in Adapters \ {b} :
                    adResults'[c] = adResults[c] /\ adSaved'[c] = adSaved[c]]_vars

\* Two adapters are in the middle of their batches at the same time, each
\* with one event resolved and another pending
C25_Witness ==
    \E a, b \in lineup :
        /\ a # b
        /\ Resolving(a)
        /\ Resolving(b)
        /\ Len(adResults[a]) = 1
        /\ Len(adResults[b]) = 1

(***************************************************************************)
(* C26.  Per-event state machine: every event discovery returned is taken  *)
(* through resolution to Resolved or Unresolved; a Resolved event is       *)
(* written to the cache and the live map; an Unresolved event is written   *)
(* to the cache only in the tombstone adapters; and no event is resolved   *)
(* whose key was in the cache the run loaded.                              *)
(***************************************************************************)
C26_EventStateMachine ==
    /\ (rnPc \in {"done", "raised"} /\ rnAdapter \notin DirectAdapters) =>
            rnIdx = Len(rnEvents)
    /\ rnPc \in {"done", "raised"} =>
            \A k \in DOMAIN rnCached :
                /\ k \in DOMAIN rnFile
                /\ rnFile[k] = rnCached[k]
                /\ rnCached[k].url # "" => (k \in DOMAIN rnLive /\ rnLive[k] = rnCached[k])
    /\ \A k \in DOMAIN rnCached :
            rnCached[k].url = "" => rnAdapter \in TombstoneAdapters
    /\ RunDiscovered => RunAttemptedKeys \cap DOMAIN RunLoaded = {}

(***************************************************************************)
(* C27.  The aggregator reads the adapters' maps only after every adapter  *)
(* task has finished: in no reachable state is the merge computed, or an   *)
(* output file written, while the scrape of some adapter has not returned. *)
(***************************************************************************)
C27_MergeAfterAllTasks ==
    (\/ mainPc \in {"merge", "write_combined", "write_events", "done"}
     \/ additions # {}
     \/ combinedWritten
     \/ eventsWritten) =>
        \A a \in lineup : adPc[a] = "done"

\* Both files are written from a merge that holds entries of two adapters
C27_Witness ==
    /\ mainPc = "done"
    /\ combinedWritten
    /\ eventsWritten
    /\ \E a, b \in lineup :
         a # b /\ (\E i \in Live(a) : <<a, i>> \in additions)
               /\ (\E i \in Live(b) : <<b, i>> \in additions)

(***************************************************************************)
(* C28.  Every entry of the live map urls of an adapter has a URL that is  *)
(* not empty, after any sequence of runs, for each adapter.                *)
(***************************************************************************)
C28_LiveHasUrl == \A k \in DOMAIN rnLive : rnLive[k].url # ""

\* A later run of watchfooty has loaded a cache that holds a tombstone and
\* an entry with a URL: only the second is in urls
C28_Witness ==
    /\ rnAdapter = "watchfooty"
    /\ rnPrevComplete
    /\ rnPc = "write"
    /\ \E k \in DOMAIN RunLoaded : RunLoaded[k].url = "" /\ k \notin DOMAIN rnLive
    /\ \E k \in DOMAIN RunLoaded : RunLoaded[k].url # "" /\ k \in DOMAIN rnLive

(***************************************************************************)
(* C29.  The timestamp stored in an entry is the time at which the entry   *)
(* was discovered and resolved: every entry a run makes carries the time   *)
(* of that run, in every adapter.                                          *)
(***************************************************************************)
C29_StampIsResolutionTime ==
    rnPc = "write" =>
        \A k \in DOMAIN rnCached :
            (k \notin DOMAIN RunLoaded \/ rnCached[k] # RunLoaded[k]) =>
                rnCached[k].ts = rnNow

(***************************************************************************)
(* C30.  A run refreshes no entry it did not resolve again: every entry    *)
(* the run loaded from its cache is written back with the URL and the      *)
(* timestamp it had, unless its key was resolved in this run.              *)
(***************************************************************************)
C30_NoRefresh ==
    [][(rnPc = "write" /\ rnPc' = "done") =>
          \A k \in DOMAIN RunLoaded :
              k \notin RunAttemptedKeys =>
                  (k \in DOMAIN rnFile' /\ rnFile'[k] = RunLoaded[k])]_vars

\* A later run has written its cache: an entry made by an earlier run is in
\* it with its older timestamp, next to an entry this run resolved
C30_Witness ==
    /\ rnPc = "done"
    /\ rnAdapter \in StampsNow
    /\ \E k \in DOMAIN rnFile :
         k \notin RunAttemptedKeys /\ rnFile[k].ts < rnNow
    /\ \E k \in DOMAIN rnFile :
         k \in RunAttemptedKeys /\ rnFile[k].ts = rnNow

(***************************************************************************)
(* C31.  Request observer: a request whose URL holds the marker .m3u8 and  *)
(* none of the fragments amazonaws and knitcdn, whatever the letter case,  *)
(* is appended to the captured list and sets the one-shot flag; any other  *)
(* request leaves the list and the flag as they were.                      *)
(***************************************************************************)
C31_ObserverMatches ==
    [][\A u \in ReqUrls :
          Request(u) =>
              IF /\ Lower(u.file) = "m3u8"
                 /\ Lower(u.host) # "amazonaws"
                 /\ Lower(u.host) # "knitcdn"
              THEN captured' = Append(captured, u) /\ gotOne'
              ELSE captured' = captured /\ gotOne' = gotOne]_vars

\* The observer has captured a manifest URL spelled in capitals
C31_Witness ==
    /\ gotOne
    /\ \E i \in 1..Len(captured) :
         captured[i].file = "M3U8" /\ captured[i].host \in {"cdn1", "cdn2"}

(***************************************************************************)
(* C32.  Upstream-response cache: the upstream API is requested only when  *)
(* the whole-blob load returned nothing; the blob written after a fetch    *)
(* carries the time of that fetch as its one timestamp; and no run that    *)
(* falls inside one TTL of a fetch requests the API again.                 *)
(***************************************************************************)
C32_ApiCache ==
    /\ apRequests > 0 => ~apLoaded.ok
    /\ (apPc \in {"discover", "done"} /\ apRequests > 0 /\ apData.ok) =>
          (apDisk = "ok" /\ apBlob = apData /\ apBlob.ts = apNow)
    /\ ~apRefetch

(***************************************************************************)
(* C33.  Mirror exhausted: in a run where get_base returned None nothing   *)
(* is discovered and nothing resolved, the map written to the cache is the *)
(* map the run loaded, and the live map holds the loaded entries that have *)
(* a URL and nothing else.                                                 *)
(***************************************************************************)
C33_MirrorExhausted ==
    rnBase = "none" =>
        /\ rnPc \in {"write", "done"}
        /\ rnEvents = <<>> /\ rnIdx = 0 /\ rnFlight = {}
        /\ \A k \in Keys : rnAttempt[k] # rnNow
        /\ rnLive = Valid(rnCached)
        /\ rnPc = "write" => rnCached = RunLoaded
        /\ rnPc = "done" => (rnDisk = "ok" /\ rnFile = rnCached)

\* A run that found no mirror has written back a cache of two entries, one
\* of them a tombstone, and shows the other
C33_Witness ==
    /\ rnBase = "none"
    /\ rnPc = "done"
    /\ Cardinality(DOMAIN rnFile) = 2
    /\ Cardinality(DOMAIN rnLive) = 1

(***************************************************************************)
(* C34.  No two events returned by one discovery call have the same        *)
(* composite key, even when the source lists an event twice; hence no      *)
(* resolution is started for a key that was already taken to resolution in *)
(* the same run.                                                           *)
(***************************************************************************)
C34_DistinctKeysPerCall ==
    /\ \A i, j \in 1..Len(rnEvents) :
          i # j => rnSource[rnEvents[i]].key # rnSource[rnEvents[j]].key
    /\ \A i \in rnFlight : rnSource[rnEvents[i]].key \notin RunAttemptedKeys

(***************************************************************************)
(* C35.  At most one page of an adapter's resolutions is open at a time:   *)
(* while the page of an event is open (or being closed), the page of the   *)
(* event before it is closed, also when that event ended by the outer      *)
(* timeout and cancellation.                                               *)
(***************************************************************************)
C35_OnePageAtATime ==
    page \in {"open", "closing"} => btPrev \in {"none", "closed"}

(***************************************************************************)
(* C36.  In process_event the one-shot flag and the captured list agree:   *)
(* the flag is set exactly when the list is not empty, a set flag is never *)
(* cleared, and a wait that ended by a match has a captured URL to return  *)
(* (the branch for an empty list after the wait is never taken).           *)
(***************************************************************************)
C36_FlagMatchesList ==
    /\ [](gotOne <=> captured # <<>>)
    /\ [][gotOne => gotOne']_vars
    /\ []((variant \in {"net", "wfty"} /\ waitEnded = "match") =>
            (peRet # None /\ \E i \in 1..Len(captured) : captured[i] = peRet))

\* A call whose wait ended by a match has returned the one captured URL
C36_Witness ==
    /\ variant = "net"
    /\ spPc = "returned"
    /\ waitEnded = "match"
    /\ gotOne
    /\ Len(captured) = 1
    /\ spResult = captured[1]

(***************************************************************************)
(* C37.  The keys of distinct adapters are apart, each key ending with the *)
(* tag of its adapter, and the union main makes loses no entry: the number *)
(* of channels emitted is the sum of the sizes of the adapters' maps, and  *)
(* every entry of every map is once in each of the two outputs.            *)
(***************************************************************************)
C37_DisjointKeySpaces ==
    /\ \A a \in tgTasks : \A k \in tgMaps[a] : k.tag = TagOf(a)
    /\ \A a, b \in tgTasks : a # b => tgMaps[a] \cap tgMaps[b] = {}
    /\ tgPc = "written" =>
          /\ Len(tgLive) = SumSizes(tgMaps, tgTasks)
          /\ Len(tgCombined) = SumSizes(tgMaps, tgTasks)
          /\ \A a \in tgTasks : \A k \in tgMaps[a] :
                /\ Cardinality({i \in 1..Len(tgLive) :
                        tgLive[i] = [event |-> k, info |-> a]}) = 1
                /\ Cardinality({i \in 1..Len(tgCombined) :
                        tgCombined[i] = [event |-> k, info |-> a]}) = 1

\* The files are written, two adapters having each built a key from the same
\* text, and every adapter holding an entry
C37_Witness ==
    /\ tgPc = "written"
    /\ \A a \in tgTasks : tgMaps[a] # {}
    /\ \E a, b \in tgTasks : \E k \in tgMaps[a] : \E l \in tgMaps[b] :
          a # b /\ k.name = l.name
    /\ Len(tgLive) >= 3

(***************************************************************************)
(* C38.  The metadata lookup is total: for every sport label and every     *)
(* event name get_tvg_info, and is_valid within it, returns a value and    *)
(* does not raise, names with more than one separator included, so that    *)
(* the entry of a resolved event is stored and the adapter goes on.        *)
(***************************************************************************)
C38_LookupTotal ==
    /\ lkPc # "raised"
    /\ lkPc = "stored" => lkInfo \in {"NFL", "NCAA", "NBA", "WNBA", "NHL", "BASKETBALL", "None"}
    /\ lkPc = "resolved" => ENABLED LookupStores

====
